---- MODULE Spec2Model ----
(***************************************************************************)
(* A model of the rally / serve / score core of tug_of_ball (Bevy ECS).    *)
(*                                                                         *)
(* One frame of the engine is a pass through the stages Update,            *)
(* PostUpdate and Last.  Every system of the program is one action; the    *)
(* systems of one stage that touch the same data and are not ordered by    *)
(* the plugins (move_ball, on_ball_bounced, handle_net_offset) may run in  *)
(* any order, and Commands (spawn_ball, insert Animator, despawn) take     *)
(* effect when the stage's buffers are applied.                            *)
(*                                                                         *)
(* Horizontal positions are pixels on the x axis; the vertical bounce      *)
(* simulation is the code's Euler step with the frame time folded into     *)
(* integer units.                                                          *)
(***************************************************************************)
EXTENDS Integers, Sequences, FiniteSets, TLC

VARIABLES
    stage,          \* the engine stage being run: "Update", "PostUpdate", "Last"
    done,           \* the systems of the current stage that have run this frame
    balls,          \* Ball entities (with their BallBounce and BallStatus), by entity id
    cmds,           \* Commands queued by the systems of the current stage
    bounce_evs,     \* BallBouncedEvt not yet read by on_ball_bounced
    score_evs,      \* ScoreChangedEvt not yet read by handle_net_offset
    game_over_evs,  \* GameOverEvt not yet read by on_game_over
    tween_evs,      \* TweenCompleted not yet read by on_tween_completed
    score,          \* the Score resource
    net,            \* the NetOffset resource
    net_t,          \* the Net entity: its Transform's translation.x and its position tween
    serving_region, \* the ServingRegion resource
    swing,          \* PlayerSwing (status and the frames left on its timer) of players 1 and 2
    hit_evs,        \* BallHitEvt sent in the current frame
    regions_target, \* the net.target the four CourtRegion colliders were last built around
    game_state,     \* State<GameState>: the state on top of the stack, "Game" or "Reset"
    reset_in,       \* ResetData.reset_in: the frames left on the timer, -1 for None
    initial_region, \* the InitialRegion resource
    player_aim      \* PlayerAim and the rotation of its Transform, of players 1 and 2

vars == <<stage, done, balls, cmds, bounce_evs, score_evs, game_over_evs, tween_evs,
          score, net, net_t, serving_region, swing, hit_evs, regions_target,
          game_state, reset_in, initial_region, player_aim>>

\* GameState::Game is on top, no reset is under way, the game was started with
\* InitialRegion(region).
game_entered(region) ==
    /\ game_state = "Game"
    /\ reset_in = -1
    /\ initial_region = region

----------------------------------------------------------------------------
(* Bounds of the model *)

\* Ball entities spawned in one run (the first serve included).
MaxBalls == 2
\* Frames the 450 ms scale-out tween of a decided ball takes.
ScaleOutTicks == 1
\* Largest bounce count a ball is followed to.
MaxCount == 3
\* Largest number of collision events of one physics step handle_regions is
\* checked with as a function.
MaxRegionEvs == 3
\* Games a side is followed to in the score ledger's own specification.
MaxGames == 6
\* games a side is followed to in the match
MaxMatchGames == 4
\* Collision events of one physics step that handle_regions is followed with.
MaxCollEvs == 1
\* Height above the ground (in units of target_height * dt) a ball is followed to.
MaxY == 2
\* Frames the 400 ms position tween of the net takes.
NetTweenTicks == 1
\* Frames PlayerSwing.duration_sec and PlayerSwing.cooldown_sec take.
SwingTicks == 1
CooldownTicks == 1

----------------------------------------------------------------------------
(* Program constants *)

GAME_SCORE_TARGET == 5
NET_OFFSET_POINT == 30
NET_OFFSET_GAME == 90
\* CourtSettings.right = BASE_VIEW_WIDTH / 2 - 300
COURT_RIGHT == 660
\* CourtSettings.win_treshold = x / 2
WIN_TRESHOLD == 330
\* cfg!(feature = "debug") of the build that is modelled
DebugFeature == FALSE

Max(a, b) == IF a >= b THEN a ELSE b
Abs(a) == IF a < 0 THEN -a ELSE a

----------------------------------------------------------------------------
(* CourtRegion *)

PlayableRegions == {"TopLeft", "TopRight", "BottomLeft", "BottomRight"}
CourtRegion == PlayableRegions \cup {"OutOfBounds"}

is_left(r) == r = "BottomLeft" \/ r = "TopLeft"
is_right(r) == r = "BottomRight" \/ r = "TopRight"
is_top(r) == r = "TopLeft" \/ r = "TopRight"
is_bottom(r) == r = "BottomRight" \/ r = "BottomLeft"
is_out_of_bounds(r) == r = "OutOfBounds"

\* Mutant: the region across the net on the same half, top or bottom.
get_inverse_mirror(r) ==
    CASE r = "OutOfBounds" -> "None"
      [] r = "TopLeft" -> "TopRight"
      [] r = "TopRight" -> "TopLeft"
      [] r = "BottomLeft" -> "BottomRight"
      [] r = "BottomRight" -> "BottomLeft"

\* Option<CourtRegion>: "None" for OutOfBounds
get_inverse(r) ==
    CASE r = "OutOfBounds" -> "None"
      [] r = "TopLeft" -> "BottomRight"
      [] r = "TopRight" -> "BottomLeft"
      [] r = "BottomLeft" -> "TopRight"
      [] r = "BottomRight" -> "TopLeft"

get_player_id(r) == IF is_left(r) THEN 1 ELSE 2

\* get_random_from_range(0..=1) and (2..=3): the regions the generator may return
get_random_left == {"TopLeft", "BottomLeft"}
get_random_right == {"TopRight", "BottomRight"}

----------------------------------------------------------------------------
(* Players *)

Players == {1, 2}
is_left_player_id(id) == id = 1
\* Player.side = -initial_dir.x.signum(): -1 for the left player, +1 for the right
player_side(id) == IF is_left_player_id(id) THEN -1 ELSE 1
\* player_q.iter().filter(|p| p.side == side).nth(0).unwrap().id
player_on_side(side) == CHOOSE p \in Players : player_side(p) = side

----------------------------------------------------------------------------
(* Score ledger *)

PlayerScore(p, g) == [points |-> p, games |-> g]
ScoreChangedEvt(left, type) == [left_side_scored |-> left, score_type |-> type]
GameOverEvt(left) == [left_has_won |-> left]
\* Score.left_has_won: Option<bool> (score.rs:39), "None" or Some(v)
Some(v) == IF v THEN "Some(true)" ELSE "Some(false)"

\* add_point_to_score with a winning margin and a switch for the deuce clamp.
add_point_variant(sc, sevs, govs, add_to_left_player, margin, clamp) ==
    LET scoring0 == IF add_to_left_player THEN sc.left_player ELSE sc.right_player
        other0 == IF add_to_left_player THEN sc.right_player ELSE sc.left_player
        pts == scoring0.points + 1
        put(s, o) == IF add_to_left_player
                     THEN [sc EXCEPT !.left_player = s, !.right_player = o]
                     ELSE [sc EXCEPT !.right_player = s, !.left_player = o]
    IN  IF pts >= Max(other0.points + margin, 4)
        THEN [score |-> put(PlayerScore(0, scoring0.games + 1), PlayerScore(0, other0.games)),
              score_evs |-> Append(sevs, ScoreChangedEvt(add_to_left_player, "Game")),
              game_over_evs |-> IF scoring0.games + 1 >= GAME_SCORE_TARGET
                                THEN Append(govs, GameOverEvt(add_to_left_player))
                                ELSE govs,
              ret |-> ~(scoring0.games + 1 >= GAME_SCORE_TARGET)]
        ELSE IF clamp /\ pts = other0.points /\ pts > 3
        THEN [score |-> put(PlayerScore(3, scoring0.games), PlayerScore(3, other0.games)),
              score_evs |-> Append(sevs, ScoreChangedEvt(add_to_left_player, "Point")),
              game_over_evs |-> govs,
              ret |-> FALSE]
        ELSE [score |-> put(PlayerScore(pts, scoring0.games), other0),
              score_evs |-> Append(sevs, ScoreChangedEvt(add_to_left_player, "Point")),
              game_over_evs |-> govs,
              ret |-> FALSE]

\* Mutant: a game is won with a lead of one point.
add_point_lead_of_one(sc, sevs, govs, add_to_left_player) ==
    add_point_variant(sc, sevs, govs, add_to_left_player, 1, TRUE)

\* Mutant: the points are not set back to 3-3 when the advantage is lost.
add_point_no_clamp(sc, sevs, govs, add_to_left_player) ==
    add_point_variant(sc, sevs, govs, add_to_left_player, 2, FALSE)

\* Mutant: a game takes five points at least.
add_point_game_at_five(sc, sevs, govs, add_to_left_player) ==
    LET scoring0 == IF add_to_left_player THEN sc.left_player ELSE sc.right_player
        other0 == IF add_to_left_player THEN sc.right_player ELSE sc.left_player
    IN IF scoring0.points + 1 = 4 /\ other0.points < 3
       THEN [score |-> IF add_to_left_player
                       THEN [sc EXCEPT !.left_player = PlayerScore(4, scoring0.games)]
                       ELSE [sc EXCEPT !.right_player = PlayerScore(4, scoring0.games)],
             score_evs |-> Append(sevs, ScoreChangedEvt(add_to_left_player, "Point")),
             game_over_evs |-> govs,
             ret |-> FALSE]
       ELSE add_point_variant(sc, sevs, govs, add_to_left_player, 2, TRUE)

\* add_point_to_score(score, score_ev_w, game_over_ev_w, add_to_left_player):
\* the score, the two event queues and the returned flag after the call.
add_point_to_score(sc, sevs, govs, add_to_left_player) ==
    LET scoring0 == IF add_to_left_player THEN sc.left_player ELSE sc.right_player
        other0 == IF add_to_left_player THEN sc.right_player ELSE sc.left_player
        pts == scoring0.points + 1
        required_points == IF DebugFeature THEN 100 ELSE Max(other0.points + 2, 4)
        put(s, o) == IF add_to_left_player
                     THEN [sc EXCEPT !.left_player = s, !.right_player = o]
                     ELSE [sc EXCEPT !.right_player = s, !.left_player = o]
    IN  IF pts >= required_points
        THEN LET games == scoring0.games + 1
             IN [score |-> put(PlayerScore(0, games), PlayerScore(0, other0.games)),
                 score_evs |-> Append(sevs, ScoreChangedEvt(add_to_left_player, "Game")),
                 game_over_evs |-> IF games >= GAME_SCORE_TARGET
                                   THEN Append(govs, GameOverEvt(add_to_left_player))
                                   ELSE govs,
                 ret |-> ~(games >= GAME_SCORE_TARGET)]
        ELSE IF pts = other0.points /\ pts > 3
        THEN [score |-> put(PlayerScore(3, scoring0.games), PlayerScore(3, other0.games)),
              score_evs |-> Append(sevs, ScoreChangedEvt(add_to_left_player, "Point")),
              game_over_evs |-> govs,
              ret |-> FALSE]
        ELSE [score |-> put(PlayerScore(pts, scoring0.games), other0),
              score_evs |-> Append(sevs, ScoreChangedEvt(add_to_left_player, "Point")),
              game_over_evs |-> govs,
              ret |-> FALSE]

----------------------------------------------------------------------------
(* Ball, BallBounce, BallStatus *)

\* Frame displacements |dir.x * speed * dt| a moving ball is followed with: the
\* way from the serving spot to the centre line.
Steps == {COURT_RIGHT - 20}
\* Positions further out than XMax are not told apart: nothing the systems
\* compare a position with (the net, the court's edges, the colliders) lies there.
XMax == 2 * (COURT_RIGHT - 20)
clamp_x(x) == IF x > XMax THEN XMax ELSE IF x < -XMax THEN -XMax ELSE x
\* CollisionShape::Sphere { radius: 15. } of the ball
BallRadius == 15
\* -BALL_GRAVITY * gravity_mult * dt of a frame, in units of target_height
gravity_step == 2

Serve(r, f, p) == [tag |-> "Serve", region |-> r, faults |-> f, player |-> p]
Fault(f, p) == [tag |-> "Fault", region |-> "OutOfBounds", faults |-> f, player |-> p]
Rally(p) == [tag |-> "Rally", region |-> "OutOfBounds", faults |-> 0, player |-> p]
Used == [tag |-> "Used", region |-> "OutOfBounds", faults |-> 0, player |-> 0]

\* The entity spawn_ball creates: Ball { region: serve_region, ..Default },
\* BallBounce::default(), BallStatus::Serve(serve_region, fault_count, player_id),
\* at x = -(court.right - 20) for a left region and court.right - 20 otherwise.
\* tween: the frames left of the scale-out Animator (-1: none inserted).
\* awards / loser / reason record the debug! line of on_ball_bounced for this ball;
\* bounced / changed record that the ball touched down and that its BallStatus was
\* written with another value in the current frame.  No system reads these five.
spawn_ball(serve_region, fault_count, player_id) ==
    [alive |-> TRUE,
     status |-> Serve(serve_region, fault_count, player_id),
     region |-> serve_region,
     x |-> IF is_left(serve_region) THEN -(COURT_RIGHT - 20) ELSE COURT_RIGHT - 20,
     prev_x |-> 0,
     dir |-> 0,
     count |-> 0,
     y |-> 0,
     height |-> 0,
     tween |-> -1,
     awards |-> 0,
     loser |-> 0,
     reason |-> "none",
     bounced |-> FALSE,
     changed |-> FALSE]

\* What is left of a ball entity after despawn_recursive.
Despawned ==
    [alive |-> FALSE, status |-> Used, region |-> "OutOfBounds", x |-> 0, prev_x |-> 0,
     dir |-> 0, count |-> 0, y |-> 0, height |-> 0, tween |-> -1,
     awards |-> 0, loser |-> 0, reason |-> "none", bounced |-> FALSE, changed |-> FALSE]

\* BallBouncedEvt { ball_e, bounce_count, side }.  age is the buffer of the engine's
\* double-buffered Events the event sits in (0: sent this frame, 1: sent last frame);
\* at_status and at_region are no fields of the event: they observe the ball's
\* status and region at the touchdown and are read by no system.
BallBouncedEvt(ball_e, bounce_count, side, st, reg) ==
    [ball_e |-> ball_e, bounce_count |-> bounce_count, side |-> side, age |-> 0,
     at_status |-> st, at_region |-> reg]

BallHitEvt(ball_e, player_id) == [ball_e |-> ball_e, player_id |-> player_id]

\* The net-cross test of move_ball (ball.rs:145).
crossed_net(ball_prev_x, ball_x, net_x) ==
    (ball_prev_x < net_x /\ ball_x > net_x) \/ (ball_prev_x > net_x /\ ball_x < net_x)

\* side of a BallBouncedEvt (ball.rs:185)
bounce_side(ball_x, net_x) == IF ball_x < net_x THEN -1 ELSE 1

\* Mutant: the serve is good when it lands in the quadrant it was served from.
eval_serve_same_region(status, region) ==
    IF status.tag = "Serve"
    THEN IF region # status.region
         THEN Fault(status.faults + 1, status.player)
         ELSE Rally(status.player)
    ELSE status

\* "eval serve on bounce" (ball.rs:170-180): the status after a touchdown
eval_serve(status, region) ==
    IF status.tag = "Serve"
    THEN IF region # get_inverse(status.region)
         THEN Fault(status.faults + 1, status.player)
         ELSE Rally(status.player)
    ELSE status

\* Mutant: a ball at rest is moved like any other.
move_one_idle_moves(b, ball_e, step, net_x) ==
    IF ~b.alive
    THEN [ball |-> b, evs |-> <<>>]
    ELSE LET ball_x == clamp_x(b.x + b.dir * step)
             count0 == IF crossed_net(b.prev_x, ball_x, net_x) THEN 0 ELSE b.count
             y1 == b.y + b.height
             st == eval_serve(b.status, b.region)
         IN IF y1 <= 0
            THEN [ball |-> [b EXCEPT !.x = ball_x, !.prev_x = ball_x, !.count = count0 + 1,
                                     !.y = 0, !.height = 1, !.status = st,
                                     !.bounced = TRUE, !.changed = @ \/ st # b.status],
                  evs |-> <<BallBouncedEvt(ball_e, count0 + 1, bounce_side(ball_x, net_x),
                                           st, b.region)>>]
            ELSE [ball |-> [b EXCEPT !.x = ball_x, !.prev_x = ball_x, !.count = count0,
                                     !.y = y1, !.height = b.height - gravity_step],
                  evs |-> <<>>]

\* The body of move_ball's loop for one ball: the ball after the frame and the
\* events sent for it.  step is |dir * speed * dt| of this frame; the vertical
\* step is the code's, in units in which the clamped target_height is 1.
move_one(b, ball_e, step, net_x) ==
    IF ~b.alive \/ b.dir = 0
    THEN [ball |-> b, evs |-> <<>>]
    ELSE LET ball_x == clamp_x(b.x + b.dir * step)
             ball_prev_x == b.prev_x
             count0 == IF crossed_net(ball_prev_x, ball_x, net_x) THEN 0 ELSE b.count
             y1 == b.y + b.height
             h1 == b.height - gravity_step
         IN IF y1 <= 0
            THEN LET st == eval_serve(b.status, b.region)
                 IN [ball |-> [b EXCEPT !.x = ball_x, !.prev_x = ball_x, !.count = count0 + 1,
                                        !.y = 0, !.height = 1, !.status = st,
                                        !.bounced = TRUE,
                                        !.changed = @ \/ st # b.status],
                     evs |-> <<BallBouncedEvt(ball_e, count0 + 1, bounce_side(ball_x, net_x),
                                              st, b.region)>>]
            ELSE [ball |-> [b EXCEPT !.x = ball_x, !.prev_x = ball_x, !.count = count0,
                                     !.y = y1, !.height = h1],
                  evs |-> <<>>]

RECURSIVE move_evs(_, _, _, _)
\* the events move_ball sends for balls i.. in query order
move_evs(bs, i, step, net_x) ==
    IF i > Len(bs) THEN <<>>
    ELSE move_one(bs[i], i, step, net_x).evs \o move_evs(bs, i + 1, step, net_x)

----------------------------------------------------------------------------
(* on_ball_bounced (player.rs:718-812) *)

\* Commands: spawn_ball's spawn_bundle, insert(Animator) of the scale-out tween,
\* despawn_recursive, and insert(Animator) of the net's position tween.
Cmd(op, ball, ball_e, start, end) ==
    [op |-> op, ball |-> ball, ball_e |-> ball_e, start |-> start, end |-> end]
CmdSpawnBall(serve_region, fault_count, player_id) ==
    Cmd("spawn_ball", spawn_ball(serve_region, fault_count, player_id), 0, 0, 0)
CmdScaleOut(ball_e) == Cmd("scale_out", Despawned, ball_e, 0, 0)
CmdDespawn(ball_e) == Cmd("despawn", Despawned, ball_e, 0, 0)
CmdNetTween(start, end) == Cmd("net_tween", Despawned, 0, start, end)
\* spawn_region for the four regions around target and despawn_recursive of the
\* old ones (level.rs:388-401)
CmdResizeRegions(target) == Cmd("resize_regions", Despawned, 0, 0, target)

\* ball_res with the fault test and the loser of a second bounce to choose.
ball_res_variant(b, ev, first_fault_loses, hitter_loses) ==
    CASE b.status.tag = "Fault" ->
           LET lost == IF first_fault_loses THEN b.status.faults >= 1 ELSE b.status.faults > 1
           IN [some |-> TRUE,
               losing_player |-> IF lost THEN b.status.player ELSE 0,
               fault_count |-> IF lost THEN 0 ELSE b.status.faults,
               reason |-> "double fault"]
      [] b.status.tag = "Rally" ->
           IF is_out_of_bounds(b.region) /\ ev.bounce_count = 1
           THEN [some |-> TRUE, losing_player |-> b.status.player, fault_count |-> 0,
                 reason |-> "shooting out of bounds"]
           ELSE IF ev.bounce_count > 1
           THEN [some |-> TRUE,
                 losing_player |-> IF hitter_loses THEN b.status.player
                                   ELSE player_on_side(ev.side),
                 fault_count |-> 0, reason |-> "too many bounces"]
           ELSE [some |-> FALSE, losing_player |-> 0, fault_count |-> 0, reason |-> "none"]
      [] OTHER -> [some |-> FALSE, losing_player |-> 0, fault_count |-> 0, reason |-> "none"]

\* Mutant: the first fault already loses the point (count >= limit).
ball_res_first_fault_loses(b, ev) == ball_res_variant(b, ev, TRUE, FALSE)

\* Mutant: a second bounce is lost by the player who hit the ball last.
ball_res_hitter_loses(b, ev) == ball_res_variant(b, ev, FALSE, TRUE)

\* Mutant: the point is lost with the third fault (limit 2).
ball_res_three_faults(b, ev) ==
    IF b.status.tag = "Fault"
    THEN [some |-> TRUE,
          losing_player |-> IF b.status.faults > 2 THEN b.status.player ELSE 0,
          fault_count |-> IF b.status.faults > 2 THEN 0 ELSE b.status.faults,
          reason |-> "double fault"]
    ELSE ball_res_variant(b, ev, FALSE, FALSE)

\* Mutant: a rally ball may bounce on any number of times.
ball_res_no_bounce_limit(b, ev) ==
    CASE b.status.tag = "Fault" -> ball_res_variant(b, ev, FALSE, FALSE)
      [] b.status.tag = "Rally" /\ is_out_of_bounds(b.region) /\ ev.bounce_count = 1 ->
           ball_res_variant(b, ev, FALSE, FALSE)
      [] OTHER -> [some |-> FALSE, losing_player |-> 0, fault_count |-> 0, reason |-> "none"]

\* ball_res of on_ball_bounced (player.rs:731-760): "None", or
\* (losing_player, fault_count, reason) with losing_player 0 for None.
ball_res(b, ev) ==
    CASE b.status.tag = "Fault" ->
           LET count == b.status.faults
               limit == 1
           IN [some |-> TRUE,
               losing_player |-> IF count > limit THEN b.status.player ELSE 0,
               fault_count |-> IF count > limit THEN 0 ELSE count,
               reason |-> "double fault"]
      [] b.status.tag = "Rally" ->
           LET bounce_limit == 1
           IN IF is_out_of_bounds(b.region) /\ ev.bounce_count = 1
              THEN [some |-> TRUE, losing_player |-> b.status.player, fault_count |-> 0,
                    reason |-> "shooting out of bounds"]
              ELSE IF ev.bounce_count > bounce_limit
              THEN [some |-> TRUE, losing_player |-> player_on_side(ev.side),
                    fault_count |-> 0, reason |-> "too many bounces"]
              ELSE [some |-> FALSE, losing_player |-> 0, fault_count |-> 0, reason |-> "none"]
      [] OTHER -> [some |-> FALSE, losing_player |-> 0, fault_count |-> 0, reason |-> "none"]

\* The loop body with the side the point goes to and the respawn to choose.
on_bounce_event_variant(w, ev, rl, rr, point_to_loser, respawn) ==
    IF ~(ev.ball_e \in DOMAIN w.balls /\ w.balls[ev.ball_e].alive)
    THEN w
    ELSE LET b == w.balls[ev.ball_e]
             res == ball_res(b, ev)
         IN IF ~res.some
            THEN w
            ELSE LET to_left == IF point_to_loser THEN is_left_player_id(res.losing_player)
                                ELSE ~is_left_player_id(res.losing_player)
                     pt == IF res.losing_player # 0
                           THEN add_point_to_score(w.score, w.score_evs, w.game_over_evs,
                                                   to_left)
                           ELSE [score |-> w.score, score_evs |-> w.score_evs,
                                 game_over_evs |-> w.game_over_evs, ret |-> FALSE]
                     region == IF pt.ret
                               THEN IF is_left(w.serving_region) THEN rr ELSE rl
                               ELSE w.serving_region
                 IN [balls |-> [w.balls EXCEPT ![ev.ball_e] =
                                   [b EXCEPT !.status = Used,
                                             !.changed = TRUE,
                                             !.awards = IF res.losing_player # 0
                                                        THEN @ + 1 ELSE @,
                                             !.loser = res.losing_player,
                                             !.reason = res.reason]],
                     score |-> pt.score,
                     score_evs |-> pt.score_evs,
                     game_over_evs |-> pt.game_over_evs,
                     serving_region |-> region,
                     cmds |-> w.cmds \o <<CmdScaleOut(ev.ball_e)>>
                                 \o IF respawn
                                    THEN <<CmdSpawnBall(region, res.fault_count,
                                                        get_player_id(region))>>
                                    ELSE <<>>]

\* Mutant: the point goes to the losing player's side.
on_bounce_event_point_to_loser(w, ev, rl, rr) ==
    on_bounce_event_variant(w, ev, rl, rr, TRUE, TRUE)

\* Mutant: no ball is spawned for the next point.
on_bounce_event_no_respawn(w, ev, rl, rr) ==
    on_bounce_event_variant(w, ev, rl, rr, FALSE, FALSE)

\* Mutant: the serve changes sides after every decided ball.
on_bounce_event_always_swap(w, ev, rl, rr) ==
    LET r == on_bounce_event_variant(w, ev, rl, rr, FALSE, TRUE)
        region == IF is_left(w.serving_region) THEN rr ELSE rl
        n == Len(r.cmds)
    IN IF r.cmds = w.cmds THEN r
       ELSE [r EXCEPT !.serving_region = region,
                      !.cmds = SubSeq(r.cmds, 1, n - 1)
                                  \o <<CmdSpawnBall(region, r.cmds[n].ball.status.faults,
                                                    get_player_id(region))>>]

\* Mutant: the ball spawned after a first fault starts from fault_count 0.
on_bounce_event_forgets_fault(w, ev, rl, rr) ==
    LET r == on_bounce_event_variant(w, ev, rl, rr, FALSE, TRUE)
        n == Len(r.cmds)
    IN IF r.cmds = w.cmds THEN r
       ELSE [r EXCEPT !.cmds = SubSeq(r.cmds, 1, n - 1)
                                  \o <<CmdSpawnBall(r.serving_region, 0,
                                                    get_player_id(r.serving_region))>>]

\* The body of on_ball_bounced's loop for one event (player.rs:730-810).  w holds
\* what the system writes: balls, score, serving_region, cmds and the two event
\* queues; rl and rr are what get_random_left() and get_random_right() return.
on_bounce_event(w, ev, rl, rr) ==
    IF ~(ev.ball_e \in DOMAIN w.balls /\ w.balls[ev.ball_e].alive)
    THEN w
    ELSE LET b == w.balls[ev.ball_e]
             res == ball_res(b, ev)
         IN IF ~res.some
            THEN w
            ELSE LET pt == IF res.losing_player # 0
                           THEN add_point_to_score(w.score, w.score_evs, w.game_over_evs,
                                                   ~is_left_player_id(res.losing_player))
                           ELSE [score |-> w.score, score_evs |-> w.score_evs,
                                 game_over_evs |-> w.game_over_evs, ret |-> FALSE]
                     swap_serve == pt.ret
                     region == IF swap_serve
                               THEN IF is_left(w.serving_region) THEN rr ELSE rl
                               ELSE w.serving_region
                 IN [balls |-> [w.balls EXCEPT ![ev.ball_e] =
                                   [b EXCEPT !.status = Used,
                                             !.changed = TRUE,
                                             !.awards = IF res.losing_player # 0
                                                        THEN @ + 1 ELSE @,
                                             !.loser = res.losing_player,
                                             !.reason = res.reason]],
                     score |-> pt.score,
                     score_evs |-> pt.score_evs,
                     game_over_evs |-> pt.game_over_evs,
                     serving_region |-> region,
                     cmds |-> w.cmds \o <<CmdScaleOut(ev.ball_e),
                                          CmdSpawnBall(region, res.fault_count,
                                                       get_player_id(region))>>]

RECURSIVE on_bounce_events(_, _, _, _)
\* for ev in ev_r_ball_bounced.iter()
on_bounce_events(w, evs, rl, rr) ==
    IF evs = <<>> THEN w
    ELSE on_bounce_events(on_bounce_event(w, Head(evs), rl, rr), Tail(evs), rl, rr)

----------------------------------------------------------------------------
(* handle_net_offset (level.rs:339-407) *)

RECURSIVE sum_offsets_unsigned(_)
\* Mutant: the offsets are added whichever side scored.
sum_offsets_unsigned(evs) ==
    IF evs = <<>> THEN 0
    ELSE (IF Head(evs).score_type = "Point" THEN NET_OFFSET_POINT ELSE NET_OFFSET_GAME)
            + sum_offsets_unsigned(Tail(evs))

RECURSIVE sum_offsets(_)
\* target_offset accumulated over the events read (level.rs:350-363)
sum_offsets(evs) ==
    IF evs = <<>> THEN 0
    ELSE LET ev == Head(evs)
             offset == IF ev.score_type = "Point" THEN NET_OFFSET_POINT ELSE NET_OFFSET_GAME
         IN (IF ~ev.left_side_scored THEN -offset ELSE offset) + sum_offsets(Tail(evs))

\* NetOffset::reset
net_reset(n) == [n EXCEPT !.current_offset = 0, !.target = 0, !.reset_queued = FALSE]

\* Mutant: the match is over when the target reaches the threshold.
handle_net_offset_at_threshold(n, net_x, evs, cs, govs) ==
    LET target_offset == sum_offsets(evs)
    IN IF target_offset # 0 \/ n.reset_queued
       THEN LET n1 == IF n.reset_queued THEN net_reset(n)
                      ELSE [n EXCEPT !.target = @ + target_offset]
                over == Abs(n1.target) >= WIN_TRESHOLD
            IN [net |-> [n1 EXCEPT !.current_offset = net_x],
                cmds |-> cs \o <<CmdNetTween(net_x, n1.target)>>
                            \o IF over THEN <<>> ELSE <<CmdResizeRegions(n1.target)>>,
                game_over_evs |-> IF over THEN Append(govs, GameOverEvt(n1.target > 0))
                                  ELSE govs]
       ELSE [net |-> [n EXCEPT !.current_offset = net_x], cmds |-> cs,
             game_over_evs |-> govs]

\* The NetOffset resource, the commands and the GameOverEvt queue after the system;
\* net_x is net_t.translation.x as the system reads it.
handle_net_offset(n, net_x, evs, cs, govs) ==
    LET target_offset == sum_offsets(evs)
    IN IF target_offset # 0 \/ n.reset_queued
       THEN LET n1 == IF n.reset_queued THEN net_reset(n)
                      ELSE [n EXCEPT !.target = @ + target_offset]
                over == Abs(n1.target) > WIN_TRESHOLD
            IN [net |-> [n1 EXCEPT !.current_offset = net_x],
                cmds |-> cs \o <<CmdNetTween(net_x, n1.target)>>
                            \o IF over THEN <<>> ELSE <<CmdResizeRegions(n1.target)>>,
                game_over_evs |-> IF over THEN Append(govs, GameOverEvt(n1.target > 0))
                                  ELSE govs]
       ELSE [net |-> [n EXCEPT !.current_offset = net_x], cmds |-> cs,
             game_over_evs |-> govs]

----------------------------------------------------------------------------
(* handle_collisions (ball.rs:208-310) *)

\* PlayerAim.dir of the player, normalized, on the x axis: towards the other side
aim_dir(p) == -player_side(p)

\* PlayerSwing: ActionStatus and the frames left on the timer (0: finished)
PlayerSwing(status, timer) == [status |-> status, timer |-> timer]
timer_finished(sw) == sw.timer = 0
\* PlayerSwing::start_cooldown
start_cooldown(sw) == PlayerSwing("Cooldown", CooldownTicks)
\* Mutant: a swing whose active time has run out is Ready at once.
handle_action_timer_no_cooldown(sw) ==
    IF sw.status = "Cooldown" \/ sw.status = "Active"
    THEN IF sw.timer - 1 <= 0 THEN PlayerSwing("Ready", 0) ELSE [sw EXCEPT !.timer = @ - 1]
    ELSE sw

\* ActionTimer::handle_action_timer (player.rs:57-84) for one frame.  The timer of
\* a Ready swing is read by nothing and is kept at 0.
handle_action_timer(sw) ==
    IF sw.status = "Cooldown" \/ sw.status = "Active"
    THEN IF sw.timer - 1 <= 0
         THEN IF sw.status = "Cooldown" THEN PlayerSwing("Ready", 0)
              ELSE PlayerSwing("Cooldown", CooldownTicks)
         ELSE [sw EXCEPT !.timer = @ - 1]
    ELSE sw

\* AIM_RING_RADIUS is imported from player.rs (ball.rs:16) and its definition is
\* not among the sources; it is followed with a value shorter than the way from
\* the serving spot to the net.
AIM_RING_RADIUS == 150
\* min(ball_dist, ball_bounce_dist) < AIM_RING_RADIUS (ball.rs:229) can hold for
\* player p: the player is kept on their side of the net (player.rs:541-550), so
\* the ball is on that side or less than the radius beyond the net.
in_reach(p, ball_x, net_x) ==
    IF is_left_player_id(p) THEN ball_x < net_x + AIM_RING_RADIUS
    ELSE ball_x > net_x - AIM_RING_RADIUS

\* Mutant: the server's own hit turns the serve into a rally as well.
status_on_hit_any(status, p) ==
    CASE status.tag = "Serve" -> Rally(p)
      [] status.tag = "Rally" -> Rally(p)
      [] OTHER -> status

\* Mutant: a hit brings a ball in Fault or Used back into the rally.
status_on_hit_revives(status, p) ==
    CASE status.tag = "Serve" /\ status.player = p -> status
      [] OTHER -> Rally(p)

\* the status after a hit by player p (ball.rs:287-298)
status_on_hit(status, p) ==
    CASE status.tag = "Serve" /\ status.player # p -> Rally(p)
      [] status.tag = "Rally" -> Rally(p)
      [] OTHER -> status

\* Mutant: an Active swing hits the ball wherever the ball is.
hit_one_any_range(w, ball_e, p, inrange) ==
    IF /\ w.balls[ball_e].alive
       /\ w.swing[p].status = "Active"
       /\ ~timer_finished(w.swing[p])
    THEN [balls |-> [w.balls EXCEPT ![ball_e] =
                        [@ EXCEPT !.dir = aim_dir(p), !.height = 1,
                                  !.status = status_on_hit(@, p)]],
          swing |-> [w.swing EXCEPT ![p] = start_cooldown(@)],
          hit_evs |-> Append(w.hit_evs, BallHitEvt(ball_e, p))]
    ELSE w

\* Mutant: a swing hits only from the frame after the one it was released in.
hit_one_after_first_tick(w, ball_e, p, inrange) ==
    IF /\ w.balls[ball_e].alive
       /\ w.swing[p].status = "Active"
       /\ <<ball_e, p>> \in inrange
       /\ ~timer_finished(w.swing[p])
       /\ w.swing[p].timer < SwingTicks
    THEN [balls |-> [w.balls EXCEPT ![ball_e] =
                        [@ EXCEPT !.dir = aim_dir(p), !.height = 1,
                                  !.status = status_on_hit(@, p)]],
          swing |-> [w.swing EXCEPT ![p] = start_cooldown(@)],
          hit_evs |-> Append(w.hit_evs, BallHitEvt(ball_e, p))]
    ELSE w

\* Mutant: the hit leaves the swing Active.
hit_one_no_cooldown(w, ball_e, p, inrange) ==
    IF /\ w.balls[ball_e].alive
       /\ w.swing[p].status = "Active"
       /\ <<ball_e, p>> \in inrange
       /\ ~timer_finished(w.swing[p])
    THEN [balls |-> [w.balls EXCEPT ![ball_e] =
                        [@ EXCEPT !.dir = aim_dir(p), !.height = 1,
                                  !.status = status_on_hit(@, p)]],
          swing |-> w.swing,
          hit_evs |-> Append(w.hit_evs, BallHitEvt(ball_e, p))]
    ELSE w

\* The body of the loops for ball ball_e and player p.  w holds what the system
\* writes: balls, swing and the BallHitEvt queue; inrange are the (ball, player)
\* pairs with min(ball_dist, ball_bounce_dist) < AIM_RING_RADIUS this frame.
hit_one(w, ball_e, p, inrange) ==
    IF /\ w.balls[ball_e].alive
       /\ w.swing[p].status = "Active"
       /\ <<ball_e, p>> \in inrange
       /\ ~timer_finished(w.swing[p])
    THEN [balls |-> [w.balls EXCEPT ![ball_e] =
                        [@ EXCEPT !.dir = aim_dir(p), !.height = 1,
                                  !.status = status_on_hit(@, p),
                                  !.changed = @ \/ status_on_hit(w.balls[ball_e].status, p)
                                                      # w.balls[ball_e].status]],
          swing |-> [w.swing EXCEPT ![p] = start_cooldown(@)],
          hit_evs |-> Append(w.hit_evs, BallHitEvt(ball_e, p))]
    ELSE w

RECURSIVE hit_loop(_, _, _, _)
\* for ball in ball_q { for player in player_q { .. } }, players 1 and 2 in turn
hit_loop(w, ball_e, p, inrange) ==
    IF ball_e > Len(w.balls) THEN w
    ELSE IF p > 2 THEN hit_loop(w, ball_e + 1, 1, inrange)
    ELSE hit_loop(hit_one(w, ball_e, p, inrange), ball_e, p + 1, inrange)

----------------------------------------------------------------------------
(* handle_regions (ball.rs:313-396) *)

CollisionEvent(ball_e, r, started) == [ball_e |-> ball_e, region |-> r, started |-> started]

\* The ball's collider overlaps region r's collider on the x axis.  The left
\* quadrants reach from the court's left edge to the net.target they were built
\* around and the right ones from there to the right edge (level.rs:144-194,
\* 389-401).
overlaps_x(ball_x, r, target) ==
    IF is_left(r)
    THEN ball_x + BallRadius >= -(COURT_RIGHT + 6) /\ ball_x - BallRadius <= target
    ELSE ball_x - BallRadius <= COURT_RIGHT + 6 /\ ball_x + BallRadius >= target

RECURSIVE region_of_first_enter(_, _, _, _, _)
\* Mutant: the first region entered is kept, later enter events are ignored.
region_of_first_enter(region, evs, ball_e, ball_x, y_out) ==
    IF evs = <<>> THEN region
    ELSE LET ev == Head(evs)
             r == ev.region
             outside == ball_x < -COURT_RIGHT \/ ball_x > COURT_RIGHT \/ y_out
             next == IF ev.ball_e # ball_e THEN region
                     ELSE IF ev.started
                     THEN IF region \in {"None", "OutOfBounds"} THEN r ELSE region
                     ELSE IF region = "None" /\ r # "OutOfBounds" /\ outside
                     THEN "OutOfBounds"
                     ELSE region
         IN region_of_first_enter(next, Tail(evs), ball_e, ball_x, y_out)

RECURSIVE region_of(_, _, _, _, _)
\* The Option<&CourtRegion> the loop over the events leaves ("None" for None);
\* outside: the ball lies outside the court's bounding box.
region_of(region, evs, ball_e, ball_x, y_out) ==
    IF evs = <<>> THEN region
    ELSE LET ev == Head(evs)
             r == ev.region
             outside == ball_x < -COURT_RIGHT \/ ball_x > COURT_RIGHT \/ y_out
             next == IF ev.ball_e # ball_e THEN region
                     ELSE IF ev.started THEN r
                     ELSE IF region = "None" /\ r # "OutOfBounds" /\ outside
                     THEN "OutOfBounds"
                     ELSE region
         IN region_of(next, Tail(evs), ball_e, ball_x, y_out)

\* The body of handle_regions' loop for one ball.
regions_one(b, ball_e, evs, y_out) ==
    IF ~b.alive THEN b
    ELSE LET r == region_of("None", evs, ball_e, b.x, y_out)
         IN IF r = "None" THEN b
            ELSE [b EXCEPT !.count = IF (is_left(b.region) /\ is_right(r))
                                        \/ (is_right(b.region) /\ is_left(r))
                                     THEN 0 ELSE @,
                           !.region = r]

----------------------------------------------------------------------------
(* The engine's frame: stages, systems, Commands and Events *)

\* Systems of the Update stage whose order against the others changes nothing
\* that is modelled: the animator and on_tween_completed run first, in this
\* order, and handle_swing_input runs last.
UpdatePrelude == <<"component_animator_system", "on_tween_completed">>
\* Systems of the Update stage that share data and carry no ordering label:
\* the executor may run them in any order (player.rs:271, ball.rs:48, level.rs:28).
UpdateCore == {"move_ball", "on_ball_bounced", "handle_net_offset"}
UpdateLate == "handle_swing_input"
PostUpdateOrder == <<"handle_collisions", "handle_regions", "handle_action_cooldown">>

Range(f) == {f[i] : i \in DOMAIN f}
Prefix(f, n) == {f[i] : i \in 1..n}

\* system sys may run now
Ready(sys) ==
    \/ /\ stage = "Update"
       /\ \E i \in DOMAIN UpdatePrelude : UpdatePrelude[i] = sys /\ done = Prefix(UpdatePrelude, i - 1)
    \/ /\ stage = "Update"
       /\ sys \in UpdateCore
       /\ Range(UpdatePrelude) \subseteq done
       /\ sys \notin done
    \/ /\ stage = "Update"
       /\ sys = UpdateLate
       /\ done = Range(UpdatePrelude) \cup UpdateCore
    \/ /\ stage = "PostUpdate"
       /\ \E i \in DOMAIN PostUpdateOrder :
             PostUpdateOrder[i] = sys /\ done = Prefix(PostUpdateOrder, i - 1)
    \/ /\ stage = "Last"
       /\ sys = "on_game_over"
       /\ done = {}

Ran(sys) == done' = done \cup {sys} /\ UNCHANGED stage

StageSystems ==
    CASE stage = "Update" -> Range(UpdatePrelude) \cup UpdateCore \cup {UpdateLate}
      [] stage = "PostUpdate" -> Range(PostUpdateOrder)
      [] stage = "Last" -> {"on_game_over"}
      [] OTHER -> {}

AliveIds == {i \in DOMAIN balls : balls[i].alive}

\* Event<T>::update of the double-buffered queues (CoreStage::First): what was sent
\* during the last frame moves to the older buffer, the older buffer is dropped.
RECURSIVE aged(_)
aged(evs) ==
    IF evs = <<>> THEN <<>>
    ELSE IF Head(evs).age = 0 THEN <<[Head(evs) EXCEPT !.age = 1]>> \o aged(Tail(evs))
    ELSE aged(Tail(evs))

events_update ==
    /\ stage = "First"
    /\ bounce_evs' = aged(bounce_evs)
    /\ hit_evs' = <<>>
    /\ balls' = [i \in DOMAIN balls |-> [balls[i] EXCEPT !.bounced = FALSE, !.changed = FALSE]]
    /\ stage' = "Update"
    /\ done' = {}
    /\ UNCHANGED <<cmds, score_evs, game_over_evs, tween_evs, score, net, net_t,
                   serving_region, swing, regions_target>>
    /\ UNCHANGED <<game_state, reset_in, initial_region, player_aim>>

\* One queued command applied to the world (balls, the net entity, the regions).
apply_cmd(w, c) ==
    CASE c.op = "spawn_ball" -> [w EXCEPT !.balls = Append(@, c.ball)]
      [] c.op = "scale_out" ->
           IF w.balls[c.ball_e].alive
           THEN [w EXCEPT !.balls[c.ball_e].tween = ScaleOutTicks]
           ELSE w
      [] c.op = "despawn" -> [w EXCEPT !.balls[c.ball_e] = Despawned]
      [] c.op = "net_tween" ->
           [w EXCEPT !.net_t.anim = [on |-> TRUE, start |-> c.start, end |-> c.end,
                                     left |-> NetTweenTicks]]
      [] c.op = "resize_regions" -> [w EXCEPT !.regions_target = c.end]

RECURSIVE apply_cmds(_, _)
apply_cmds(w, cs) ==
    IF cs = <<>> THEN w ELSE apply_cmds(apply_cmd(w, Head(cs)), Tail(cs))

\* The end of a stage: the Commands of its systems are applied, the next stage starts.
apply_buffers ==
    /\ stage \in {"Update", "PostUpdate", "Last"}
    /\ done = StageSystems
    /\ LET w == apply_cmds([balls |-> balls, net_t |-> net_t,
                             regions_target |-> regions_target], cmds)
       IN /\ Len(w.balls) <= MaxBalls
          /\ balls' = w.balls
          /\ net_t' = w.net_t
          /\ regions_target' = w.regions_target
    /\ cmds' = <<>>
    /\ stage' = CASE stage = "Update" -> "PostUpdate"
                  [] stage = "PostUpdate" -> "Last"
                  [] stage = "Last" -> "First"
    /\ done' = {}
    /\ UNCHANGED <<bounce_evs, score_evs, game_over_evs, tween_evs, score, net,
                   serving_region, swing, hit_evs>>
    /\ UNCHANGED <<game_state, reset_in, initial_region, player_aim>>

----------------------------------------------------------------------------
(* The systems *)

\* handle_swing_input (player.rs:666-699): a released swing button starts a swing
\* of a player whose swing is Ready.
handle_swing_input_sys ==
    /\ Ready("handle_swing_input")
    /\ \E released \in SUBSET Players :
          swing' = [p \in Players |->
                       IF p \in released /\ swing[p].status = "Ready"
                       THEN PlayerSwing("Active", SwingTicks) ELSE swing[p]]
    /\ Ran("handle_swing_input")
    /\ UNCHANGED <<balls, cmds, bounce_evs, score_evs, game_over_evs, tween_evs, score,
                   net, net_t, serving_region, hit_evs, regions_target>>
    /\ UNCHANGED <<game_state, reset_in, initial_region, player_aim>>

\* The tween of a decided ball one frame on (player.rs:774-785): the frames left.
tween_step(b) ==
    IF b.alive /\ b.tween > 0 THEN [b EXCEPT !.tween = @ - 1] ELSE b

\* The net's TransformPositionLens one frame on (level.rs:373-381).
net_tween_step(nt) ==
    IF nt.anim.on /\ nt.anim.left > 0
    THEN LET left == nt.anim.left - 1
             a == nt.anim
         IN [x |-> IF left = 0 THEN a.end
                   ELSE a.start + ((a.end - a.start) * (NetTweenTicks - left)) \div NetTweenTicks,
             \* a tween that has ended moves nothing any more
             anim |-> IF left = 0 THEN [on |-> FALSE, start |-> 0, end |-> 0, left |-> 0]
                      ELSE [a EXCEPT !.left = left]]
    ELSE nt

RECURSIVE completed(_, _)
\* TweenCompleted events of the balls whose scale-out tween ends this frame
completed(bs, i) ==
    IF i > Len(bs) THEN <<>>
    ELSE (IF bs[i].alive /\ bs[i].tween = 1 THEN <<i>> ELSE <<>>) \o completed(bs, i + 1)

\* bevy_tweening's animator system: every Animator advances by one frame.
component_animator_system ==
    /\ Ready("component_animator_system")
    /\ balls' = [i \in DOMAIN balls |-> tween_step(balls[i])]
    /\ tween_evs' = tween_evs \o completed(balls, 1)
    /\ net_t' = net_tween_step(net_t)
    /\ Ran("component_animator_system")
    /\ UNCHANGED <<cmds, bounce_evs, score_evs, game_over_evs, score, net,
                   serving_region, swing, hit_evs, regions_target>>
    /\ UNCHANGED <<game_state, reset_in, initial_region, player_aim>>

RECURSIVE despawn_cmds(_)
despawn_cmds(evs) ==
    IF evs = <<>> THEN <<>> ELSE <<CmdDespawn(Head(evs))>> \o despawn_cmds(Tail(evs))

\* on_tween_completed (tween.rs:31-43): TweenDoneAction::DespawnRecursive
on_tween_completed ==
    /\ Ready("on_tween_completed")
    /\ cmds' = cmds \o despawn_cmds(tween_evs)
    /\ tween_evs' = <<>>
    /\ Ran("on_tween_completed")
    /\ UNCHANGED <<balls, bounce_evs, score_evs, game_over_evs, score, net, net_t,
                   serving_region, swing, hit_evs, regions_target>>
    /\ UNCHANGED <<game_state, reset_in, initial_region, player_aim>>

\* move_ball (ball.rs:112-205), a system of SystemSet::on_update(GameState::Game)
move_ball ==
    /\ Ready("move_ball")
    /\ game_state = "Game"
    /\ \E step \in Steps :
          /\ balls' = [i \in DOMAIN balls |->
                          move_one(balls[i], i, step, net.current_offset).ball]
          /\ \A i \in AliveIds :
                /\ balls'[i].count <= MaxCount
                /\ balls'[i].y <= MaxY
          /\ bounce_evs' = bounce_evs \o move_evs(balls, 1, step, net.current_offset)
    /\ Ran("move_ball")
    /\ UNCHANGED <<cmds, score_evs, game_over_evs, tween_evs, score, net, net_t,
                   serving_region, swing, hit_evs, regions_target>>
    /\ UNCHANGED <<game_state, reset_in, initial_region, player_aim>>

\* on_ball_bounced (player.rs:718-812)
on_ball_bounced ==
    /\ Ready("on_ball_bounced")
    /\ \E rl \in get_random_left, rr \in get_random_right :
          LET w0 == [balls |-> balls, score |-> score, score_evs |-> score_evs,
                     game_over_evs |-> game_over_evs, serving_region |-> serving_region,
                     cmds |-> cmds]
              w == on_bounce_events(w0, bounce_evs, rl, rr)
          IN \* one draw stands for all when the generator's result is not used
             /\ w = on_bounce_events(w0, bounce_evs, "TopLeft", "TopRight")
                   => rl = "TopLeft" /\ rr = "TopRight"
             /\ balls' = w.balls
             /\ score' = w.score
             /\ score_evs' = w.score_evs
             /\ game_over_evs' = w.game_over_evs
             /\ serving_region' = w.serving_region
             /\ cmds' = w.cmds
    /\ bounce_evs' = <<>>
    /\ Ran("on_ball_bounced")
    /\ UNCHANGED <<tween_evs, net, net_t, swing, hit_evs, regions_target>>
    /\ UNCHANGED <<game_state, reset_in, initial_region, player_aim>>

\* handle_net_offset (level.rs:339-407), a system of on_update(GameState::Game)
handle_net_offset_sys ==
    /\ Ready("handle_net_offset")
    /\ game_state = "Game"
    /\ LET w == handle_net_offset(net, net_t.x, score_evs, cmds, game_over_evs)
       IN /\ net' = w.net
          /\ cmds' = w.cmds
          /\ game_over_evs' = w.game_over_evs
    /\ score_evs' = <<>>
    /\ Ran("handle_net_offset")
    /\ UNCHANGED <<balls, bounce_evs, tween_evs, score, net_t, serving_region, swing,
                   hit_evs, regions_target>>
    /\ UNCHANGED <<game_state, reset_in, initial_region, player_aim>>

\* handle_collisions (ball.rs:208-310)
handle_collisions ==
    /\ Ready("handle_collisions")
    /\ \E inrange \in SUBSET {ip \in AliveIds \X {p \in Players : swing[p].status = "Active"} :
                                in_reach(ip[2], balls[ip[1]].x, net_t.x)} :
          LET w == hit_loop([balls |-> balls, swing |-> swing, hit_evs |-> hit_evs],
                            1, 1, inrange)
          IN /\ balls' = w.balls
             /\ swing' = w.swing
             /\ hit_evs' = w.hit_evs
    /\ Ran("handle_collisions")
    /\ UNCHANGED <<cmds, bounce_evs, score_evs, game_over_evs, tween_evs, score, net,
                   net_t, serving_region, regions_target>>
    /\ UNCHANGED <<game_state, reset_in, initial_region, player_aim>>

\* The collision events the physics step may report for the balls this frame.
\* A Started event names a region the ball overlaps on the x axis; of a Stopped
\* event handle_regions reads nothing but that its region is not OutOfBounds (no
\* collider carries that region), so one region stands for all.
CollisionEvents ==
    {CollisionEvent(i, r, TRUE) : i \in AliveIds, r \in PlayableRegions}
        \cup {CollisionEvent(i, "TopLeft", FALSE) : i \in AliveIds}
PlausibleEvent(ev) ==
    ev.started => overlaps_x(balls[ev.ball_e].x, ev.region, regions_target)
CollisionBatches ==
    UNION {[1..n -> {ev \in CollisionEvents : PlausibleEvent(ev)}] : n \in 0..MaxCollEvs}
\* a Stopped event is in the batch
has_stopped(evs) == \E i \in DOMAIN evs : ~evs[i].started

\* handle_regions (ball.rs:313-396)
handle_regions ==
    /\ Ready("handle_regions")
    /\ \E evs \in CollisionBatches :
       \E y_out \in IF has_stopped(evs) THEN BOOLEAN ELSE {FALSE} :
          balls' = [i \in DOMAIN balls |-> regions_one(balls[i], i, evs, y_out)]
    /\ Ran("handle_regions")
    /\ UNCHANGED <<cmds, bounce_evs, score_evs, game_over_evs, tween_evs, score, net,
                   net_t, serving_region, swing, hit_evs,
                   regions_target>>
    /\ UNCHANGED <<game_state, reset_in, initial_region, player_aim>>

\* handle_action_cooldown::<PlayerSwing, f32> (player.rs:709-716)
handle_action_cooldown ==
    /\ Ready("handle_action_cooldown")
    /\ swing' = [p \in Players |-> handle_action_timer(swing[p])]
    /\ Ran("handle_action_cooldown")
    /\ UNCHANGED <<balls, cmds, bounce_evs, score_evs, game_over_evs, tween_evs, score,
                   net, net_t, serving_region, hit_evs, regions_target>>
    /\ UNCHANGED <<game_state, reset_in, initial_region, player_aim>>

\* on_game_over (score.rs:123-155): the first event read is recorded, the rest dropped
on_game_over ==
    /\ Ready("on_game_over")
    /\ score' = IF game_over_evs = <<>> THEN score
                ELSE [score EXCEPT !.left_has_won = Some(Head(game_over_evs).left_has_won)]
    /\ game_over_evs' = <<>>
    /\ Ran("on_game_over")
    /\ UNCHANGED <<balls, cmds, bounce_evs, score_evs, tween_evs, net, net_t,
                   serving_region, swing, hit_evs, regions_target>>
    /\ UNCHANGED <<game_state, reset_in, initial_region, player_aim>>

----------------------------------------------------------------------------
(* The game *)

\* The regions the InitialRegion resource is followed with: a serve from the left
\* and a serve from the right, one from the bottom and one from the top.
----------------------------------------------------------------------------
(* aim (player.rs:585-660).  Vec2 is a pair of thousandths, a rotation about
   the z axis is its Euler angle in whole degrees in -179..180; f32 arithmetic
   is followed to three digits. *)

abs(n) == IF n < 0 THEN -n ELSE n
sgn(n) == IF n < 0 THEN -1 ELSE IF n > 0 THEN 1 ELSE 0
\* division that rounds towards zero
sdiv(a, b) == sgn(a) * (abs(a) \div b)
RECURSIVE isqrt_in(_, _, _)
\* the largest n in lo..hi with n * n <= v
isqrt_in(v, lo, hi) ==
    IF lo = hi THEN lo
    ELSE LET mid == (lo + hi + 1) \div 2
         IN IF mid * mid <= v THEN isqrt_in(v, mid, hi) ELSE isqrt_in(v, lo, mid - 1)
isqrt(v) == isqrt_in(v, 0, 2047)
\* Vec2::length
length(v) == isqrt(v[1] * v[1] + v[2] * v[2])
\* Vec2::normalize_or_zero
normalize_or_zero(v) ==
    IF length(v) = 0 THEN <<0, 0>>
    ELSE <<sdiv(v[1] * 1000, length(v)), sdiv(v[2] * 1000, length(v))>>
\* Vec2::normalize: of the zero vector it is (NaN, NaN), which is neither
\* positive nor negative and is followed as (0, 0)
normalize(v) ==
    IF length(v) = 0 THEN <<0, 0>>
    ELSE <<sdiv(v[1] * 1000, length(v)), sdiv(v[2] * 1000, length(v))>>
\* Vec2::clamp
clamp1(x, lo, hi) == IF x < lo THEN lo ELSE IF x > hi THEN hi ELSE x
clamp(v, lo, hi) == <<clamp1(v[1], lo[1], hi[1]), clamp1(v[2], lo[2], hi[2])>>

\* an angle brought into -179..180
norm180(a) == ((a + 179) % 360) - 179
\* sin of 0..180 degrees, in thousandths
sin_half(d) == (4000 * d * (180 - d)) \div (40500 - d * (180 - d))
sin_milli(a) == IF norm180(a) >= 0 THEN sin_half(norm180(a)) ELSE -sin_half(-norm180(a))
cos_milli(a) == sin_milli(a + 90)
\* atan of t in -1000..1000 thousandths, in degrees
atan_deg(t) ==
    sgn(t) * ((45 * abs(t) + (1564 * abs(t) * (1000 - abs(t))) \div 100000 + 500) \div 1000)
\* Vec2::angle_between(dir, Vec2::Y) for a dir with x = 1 or x = -1
angle_between_y(dir) ==
    norm180(90 - (IF dir[1] > 0 THEN atan_deg(dir[2]) ELSE 180 - atan_deg(dir[2])))
\* Quat::angle_between of two rotations about z
quat_angle_between(a, b) == abs(norm180(a - b))
\* rotation * Vec3::Y, truncated
rotated_y(rot) == <<-sin_milli(rot), cos_milli(rot)>>

\* the frame time of the aim's turn, in milliseconds
AimDtMs == 200
\* the raw aim (or move) axes of a player
RawAims == {-1000, 0, 1000} \X {-1000, 0, 1000}

\* the aim entity of player p as setup spawns it (player.rs:296, 315-328)
spawn_aim(p) ==
    [rotation |-> IF is_left_player_id(p) THEN -90 ELSE 90,
     direction |-> IF is_left_player_id(p) THEN <<1000, 0>> ELSE <<-1000, 0>>]
players_spawned == player_aim = [p \in Players |-> spawn_aim(p)]

\* the turn of the aim towards dir (player.rs:638-653)
turn_aim(a, dir, dir_raw) ==
    LET target_rotation == norm180(-angle_between_y(dir))
        limit == (260 * AimDtMs * length(dir_raw)) \div 1000000
        rotation == IF quat_angle_between(target_rotation, a.rotation) <= limit
                    THEN target_rotation
                    ELSE norm180(a.rotation + IF target_rotation > a.rotation THEN limit
                                                ELSE -limit)
    IN [rotation |-> rotation, direction |-> rotated_y(rotation)]

\* Mutant: the aim is clamped to the player's own side.
aim_clamp_own_side(a, p, dir_raw) ==
    LET dir == normalize_or_zero(dir_raw)
        player_x_sign == player_side(p)
    IN IF dir = <<0, 0>> THEN a
       ELSE turn_aim(a, clamp(dir, <<player_x_sign * 1000, -800>>,
                                   <<player_x_sign * 1000, 800>>), dir_raw)

\* the body of aim's loop for player p with the raw axes dir_raw
aim(a, p, dir_raw) ==
    LET dir == normalize_or_zero(dir_raw)
        player_x_sign == player_side(p)
    IN IF dir = <<0, 0>> THEN a
       ELSE IF dir = <<player_x_sign * 1000, 0>>
       THEN turn_aim(a, <<-player_x_sign * 1000, 0>>, dir_raw)
       ELSE IF player_x_sign < 0
       THEN turn_aim(a, clamp(dir, <<1000, -800>>, <<1000, 800>>), dir_raw)
       ELSE turn_aim(a, clamp(dir, <<-1000, -800>>, <<-1000, 800>>), dir_raw)


InitialRegions == {"BottomLeft", "TopRight"}

\* The world when GameState::Game has been entered: ball::setup has spawned the
\* first ball in InitialRegion, reset_score has zeroed the score and queued the
\* net's reset.
Init ==
    /\ stage = "First"
    /\ done = {}
    /\ \E region \in InitialRegions :
          /\ balls = <<spawn_ball(region, 0, get_player_id(region))>>
          /\ serving_region = region
    /\ cmds = <<>>
    /\ bounce_evs = <<>>
    /\ score_evs = <<>>
    /\ game_over_evs = <<>>
    /\ tween_evs = <<>>
    /\ hit_evs = <<>>
    /\ score = [left_player |-> PlayerScore(0, 0), right_player |-> PlayerScore(0, 0),
                left_has_won |-> "None"]
    /\ net = [target |-> 0, current_offset |-> 0, reset_queued |-> TRUE]
    /\ net_t = [x |-> 0, anim |-> [on |-> FALSE, start |-> 0, end |-> 0, left |-> 0]]
    /\ swing = [p \in Players |-> PlayerSwing("Ready", 0)]
    /\ regions_target = 0
    /\ game_entered(serving_region)
    /\ players_spawned

Next ==
    \/ events_update
    \/ handle_swing_input_sys
    \/ component_animator_system
    \/ on_tween_completed
    \/ move_ball
    \/ on_ball_bounced
    \/ handle_net_offset_sys
    \/ apply_buffers
    \/ handle_collisions
    \/ handle_regions
    \/ handle_action_cooldown
    \/ on_game_over

Spec == Init /\ [][Next]_vars

----------------------------------------------------------------------------
(* Properties of the rally, the serve and the point *)

\* the step taken is the run of system sys in the current frame
step_of(sys) == sys \notin done /\ done' = done \cup {sys}
\* the BallBouncedEvt waiting for on_ball_bounced that name ball i
events_for(i) == SelectSeq(bounce_evs, LAMBDA e : e.ball_e = i)
\* what the step appends to the queues
new_bounce_evs == SubSeq(bounce_evs', Len(bounce_evs) + 1, Len(bounce_evs'))
new_score_evs == SubSeq(score_evs', Len(score_evs) + 1, Len(score_evs'))
new_cmds == SubSeq(cmds', Len(cmds) + 1, Len(cmds'))
\* ball i touches down in this step of move_ball: a BallBouncedEvt is sent for it
touches_down(i) ==
    /\ step_of("move_ball")
    /\ \E k \in DOMAIN new_bounce_evs : new_bounce_evs[k].ball_e = i
\* the BallStatus of the balls the step queues for spawning
spawned_status == {new_cmds[k].ball.status :
                      k \in {j \in DOMAIN new_cmds : new_cmds[j].op = "spawn_ball"}}
\* the Ball entities in play: spawned, not despawned, status other than Used
live_balls == {i \in DOMAIN balls : balls[i].alive /\ balls[i].status.tag # "Used"}
queued_spawns == {k \in DOMAIN cmds : cmds[k].op = "spawn_ball"}
was_hit(i) == \E k \in DOMAIN hit_evs : hit_evs[k].ball_e = i

\* C1: when a ball with status Serve(region, faults, player) touches down in
\* move_ball, its status becomes Rally(player) if ball.region is
\* region.get_inverse() at the touchdown and Fault(faults + 1, player) in every
\* other case.
C1_ServeLegality ==
    [][\A i \in DOMAIN balls :
          (touches_down(i) /\ balls[i].status.tag = "Serve") =>
             LET st == balls[i].status
             IN balls'[i].status =
                   IF balls[i].region = get_inverse(st.region)
                   THEN [tag |-> "Rally", region |-> "OutOfBounds", faults |-> 0,
                         player |-> st.player]
                   ELSE [tag |-> "Fault", region |-> "OutOfBounds",
                         faults |-> st.faults + 1, player |-> st.player]]_vars

\* C1 witness: the first ball, served by the left player from BottomLeft, has just
\* touched down for the first time in TopRight and is in Rally for the server
C1_Witness ==
    /\ stage = "Update"
    /\ "move_ball" \in done
    /\ Len(balls) = 1
    /\ serving_region = "BottomLeft"
    /\ balls[1].region = "TopRight"
    /\ balls[1].bounced
    /\ balls[1].count = 1
    /\ balls[1].status.tag = "Rally"
    /\ balls[1].status.player = 1
    /\ hit_evs = <<>>

\* C2: when on_ball_bounced resolves a bounce of a ball in Fault, then after a
\* first fault (count 1) no point is awarded and the ball spawned carries
\* fault_count 1 for the same server, and after the second fault in a row
\* (count 2 > limit 1) the point goes to the opponent of the serving player and
\* the ball spawned for the next point is in Serve with fault_count 0.
C2_DoubleFault ==
    [][\A i \in DOMAIN balls :
          (/\ step_of("on_ball_bounced")
           /\ balls[i].alive
           /\ balls[i].status.tag = "Fault"
           /\ events_for(i) # <<>>) =>
             LET f == balls[i].status.faults
                 p == balls[i].status.player
             IN IF f >= 2
                THEN /\ Len(new_score_evs) = 1
                     /\ new_score_evs[1].left_side_scored = (p # 1)
                     /\ score' # score
                     /\ Cardinality(spawned_status) = 1
                     /\ \A st \in spawned_status : st.tag = "Serve" /\ st.faults = 0
                ELSE /\ new_score_evs = <<>>
                     /\ score' = score
                     /\ spawned_status = {[tag |-> "Serve", region |-> serving_region,
                                           faults |-> 1, player |-> p]}]_vars

\* C2 witness: the second ball of the left server has been resolved as the second
\* fault in a row: the point went to the right side and a ball with fault_count 0
\* is queued
C2_Witness ==
    /\ Len(balls) = 2
    /\ balls[2].alive
    /\ balls[2].status.tag = "Used"
    /\ balls[2].reason = "double fault"
    /\ balls[2].loser = 1
    /\ balls[2].awards = 1
    /\ score.right_player.points = 1
    /\ \E k \in queued_spawns : cmds[k].ball.status.faults = 0

\* C3: the side of a BallBouncedEvt is -1 if ball.x < net.current_offset and +1
\* otherwise, taken at the touchdown; when on_ball_bounced resolves an event with
\* bounce_count > 1 of a ball in Rally, the player of that side loses the point
\* and the point goes to the other player.
C3_BounceLimit ==
    [][/\ \A k \in DOMAIN new_bounce_evs :
             step_of("move_ball") =>
                LET e == new_bounce_evs[k]
                IN e.side = IF balls'[e.ball_e].x < net.current_offset THEN -1 ELSE 1
       /\ \A i \in DOMAIN balls :
             (/\ step_of("on_ball_bounced")
              /\ balls[i].alive
              /\ events_for(i) # <<>>
              /\ events_for(i)[1].at_status.tag = "Rally"
              /\ events_for(i)[1].bounce_count > 1) =>
                LET loser == IF events_for(i)[1].side < 0 THEN 1 ELSE 2
                IN /\ balls'[i].loser = loser
                   /\ balls'[i].reason = "too many bounces"
                   /\ Len(new_score_evs) = 1
                   /\ new_score_evs[1].left_side_scored = (loser # 1)]_vars

\* C3 witness: a ball that the right player hit last bounced twice on the right
\* side, and the right player has lost the point for it
C3_Witness ==
    \E i \in DOMAIN balls :
       /\ balls[i].alive
       /\ balls[i].status.tag = "Used"
       /\ balls[i].reason = "too many bounces"
       /\ balls[i].loser = 2
       /\ balls[i].count = 2
       /\ balls[i].x > net.current_offset
       /\ score.left_player.points = 1

\* C4: in every tick in which the moving ball's x passes from one side of
\* net.current_offset to the other (the sides as BallBouncedEvt.side tells them),
\* bounce.count is 0 after the tick.
C4_NetCrossResets ==
    [][\A i \in DOMAIN balls :
          (/\ step_of("move_ball")
           /\ balls[i].alive
           /\ balls[i].dir # 0
           /\ (balls[i].x < net.current_offset) # (balls'[i].x < net.current_offset))
             => balls'[i].count = 0]_vars

\* C5: when on_ball_bounced resolves the first bounce (bounce_count = 1) of a
\* ball that was in Rally(p) with region OutOfBounds at the touchdown, p loses
\* the point and the opponent is awarded it.
C5_OutOfBounds ==
    [][\A i \in DOMAIN balls :
          (/\ step_of("on_ball_bounced")
           /\ balls[i].alive
           /\ balls[i].status.tag # "Used"
           /\ events_for(i) # <<>>
           /\ events_for(i)[1].bounce_count = 1
           /\ events_for(i)[1].at_status.tag = "Rally"
           /\ events_for(i)[1].at_region = "OutOfBounds") =>
             LET p == events_for(i)[1].at_status.player
             IN /\ balls'[i].loser = p
                /\ Len(new_score_evs) = 1
                /\ new_score_evs[1].left_side_scored = (p # 1)]_vars

C7_StatusChangeInBounceOrHitTick ==
    stage = "Last" =>
       \A i \in DOMAIN balls :
          (balls[i].alive /\ balls[i].changed) => (balls[i].bounced \/ was_hit(i))

\* C8: add_point_to_score is called at most once for a ball, once for a ball that
\* ended by a double fault, out of bounds or a second bounce (a losing player is
\* named) and not for any other ball, and the point goes to the side opposite the
\* losing player.
C8_OnePointPerBall ==
    /\ [](\A i \in DOMAIN balls :
             /\ balls[i].awards <= 1
             /\ balls[i].awards = IF balls[i].loser # 0 THEN 1 ELSE 0
             /\ balls[i].loser # 0 =>
                   balls[i].reason \in {"double fault", "shooting out of bounds",
                                        "too many bounces"})
    /\ [][\A i \in DOMAIN balls :
             (balls'[i].alive /\ balls'[i].awards # balls[i].awards) =>
                /\ step_of("on_ball_bounced")
                /\ balls'[i].loser \in {1, 2}
                /\ Len(new_score_evs) = 1
                /\ new_score_evs[1].left_side_scored = (balls'[i].loser # 1)
                /\ score' = add_point_to_score(score, <<>>, <<>>, balls'[i].loser # 1).score
                /\ score' # score]_vars

\* C8 witness: the left player shot out of bounds and the right side has the point
C8_Witness ==
    \E i \in DOMAIN balls :
       /\ balls[i].alive
       /\ balls[i].reason = "shooting out of bounds"
       /\ balls[i].loser = 1
       /\ balls[i].awards = 1
       /\ score.right_player.points = 1
       /\ score.left_player.points = 0

----------------------------------------------------------------------------
(* The score ledger on its own: add_point_to_score called for either side, point
   after point, from 0-0 *)

no_balls_state ==
    /\ stage = "Ledger"
    /\ done = {}
    /\ balls = <<>>
    /\ cmds = <<>>
    /\ bounce_evs = <<>>
    /\ tween_evs = <<>>
    /\ hit_evs = <<>>
    /\ net = [target |-> 0, current_offset |-> 0, reset_queued |-> TRUE]
    /\ net_t = [x |-> 0, anim |-> [on |-> FALSE, start |-> 0, end |-> 0, left |-> 0]]
    /\ serving_region = "BottomLeft"
    /\ swing = [p \in Players |-> PlayerSwing("Ready", 0)]
    /\ regions_target = 0

InitScore ==
    /\ no_balls_state
    /\ score_evs = <<>>
    /\ game_over_evs = <<>>
    /\ score = [left_player |-> PlayerScore(0, 0), right_player |-> PlayerScore(0, 0),
                left_has_won |-> "None"]
    /\ game_entered(serving_region)
    /\ players_spawned

\* One call of add_point_to_score with empty event writers: score_evs and
\* game_over_evs hold the events of the last call.
score_point ==
    /\ stage = "Ledger"
    /\ score.left_player.games < MaxGames
    /\ score.right_player.games < MaxGames
    /\ \E add_to_left_player \in BOOLEAN :
          LET r == add_point_to_score(score, <<>>, <<>>, add_to_left_player)
          IN /\ score' = r.score
             /\ score_evs' = r.score_evs
             /\ game_over_evs' = r.game_over_evs
    /\ UNCHANGED <<stage, done, balls, cmds, bounce_evs, tween_evs, net, net_t,
                   serving_region, swing, hit_evs, regions_target>>
    /\ UNCHANGED <<game_state, reset_in, initial_region, player_aim>>

NextScore == score_point

SpecScore == InitScore /\ [][NextScore]_vars

\* the scoring side's and the other side's PlayerScore in a Score
scoring_of(sc, left) == IF left THEN sc.left_player ELSE sc.right_player
other_of(sc, left) == IF left THEN sc.right_player ELSE sc.left_player

\* C9: a point added for a side wins the game exactly when that side's points,
\* incremented, are >= max(opponent points + 2, 4); then its games grow by one,
\* both sides' points are 0 and the one event sent is a ScoreChangedEvt of type
\* Game; otherwise no games value changes and the one event sent is a
\* ScoreChangedEvt of type Point; left_side_scored names the scoring side.
C9_GameCompletion ==
    stage = "Ledger" =>
    \A left \in BOOLEAN :
       LET s == scoring_of(score, left)
           o == other_of(score, left)
           r == add_point_to_score(score, <<>>, <<>>, left)
           s1 == scoring_of(r.score, left)
           o1 == other_of(r.score, left)
           threshold == IF o.points + 2 >= 4 THEN o.points + 2 ELSE 4
       IN IF s.points + 1 >= threshold
          THEN /\ s1.games = s.games + 1
               /\ o1.games = o.games
               /\ s1.points = 0
               /\ o1.points = 0
               /\ r.score_evs = <<[left_side_scored |-> left, score_type |-> "Game"]>>
          ELSE /\ s1.games = s.games
               /\ o1.games = o.games
               /\ r.score_evs = <<[left_side_scored |-> left, score_type |-> "Point"]>>

\* C9 witness: the left side has just won a game from 40-30 or better
C9_Witness ==
    /\ stage = "Ledger"
    /\ score.left_player.games = 2
    /\ score.right_player.games = 1
    /\ score.left_player.points = 0
    /\ score.right_player.points = 0
    /\ score_evs = <<[left_side_scored |-> TRUE, score_type |-> "Game"]>>

\* C10: from 3-3 the side that wins the next point goes to 4 and the other stays
\* at 3; when the side holding 4 loses the next point both sides are back at 3
\* and no game is awarded; when it wins the next point it wins the game; no
\* points value is ever above 4.
C10_DeuceClamp ==
    stage = "Ledger" =>
    /\ score.left_player.points <= 4
    /\ score.right_player.points <= 4
    /\ \A left \in BOOLEAN :
          LET s == scoring_of(score, left)
              o == other_of(score, left)
              r == add_point_to_score(score, <<>>, <<>>, left)
              s1 == scoring_of(r.score, left)
              o1 == other_of(r.score, left)
          IN /\ (s.points = 3 /\ o.points = 3)
                   => /\ s1.points = 4 /\ o1.points = 3
                      /\ s1.games = s.games /\ o1.games = o.games
             /\ (s.points = 3 /\ o.points = 4)
                   => /\ s1.points = 3 /\ o1.points = 3
                      /\ s1.games = s.games /\ o1.games = o.games
             /\ (s.points = 4 /\ o.points = 3)
                   => /\ s1.games = s.games + 1 /\ o1.games = o.games
                      /\ s1.points = 0 /\ o1.points = 0

\* C10 witness: from deuce the right side has won the point and holds the
\* advantage, 3-4, after the left side has won a game
C10_Witness ==
    /\ stage = "Ledger"
    /\ score.left_player.points = 3
    /\ score.right_player.points = 4
    /\ score.left_player.games = 1
    /\ score_evs = <<[left_side_scored |-> FALSE, score_type |-> "Point"]>>

----------------------------------------------------------------------------
(* The match: the frame with the balls' flight left out.  Every frame
   on_ball_bounced meets at most one ball whose bounce decides something, drawn
   from the statuses and regions a ball can have at a touchdown; the score, the
   serving region, the net and the game-over record are followed as the systems
   write them. *)

\* The ball served from region sr as a touchdown can leave it.
DecidingBalls(sr) ==
    LET b0 == spawn_ball(sr, 0, get_player_id(sr))
    IN {[b0 EXCEPT !.status = Fault(f, get_player_id(sr))] : f \in 1..2}
          \cup {[b0 EXCEPT !.status = Rally(p), !.region = r] :
                   p \in Players, r \in {"OutOfBounds", sr, get_inverse(sr)}}

\* The BallBouncedEvt of a touchdown of ball b, the only entity of the query.
DecidingEvents(b) ==
    {BallBouncedEvt(1, c, side, b.status, b.region) : c \in 1..2, side \in {-1, 1}}

\* What on_ball_bounced makes of ball b and event ev in the current state.
decided(b, ev, rl, rr) ==
    on_bounce_event([balls |-> <<b>>, score |-> score, score_evs |-> score_evs,
                     game_over_evs |-> game_over_evs,
                     serving_region |-> serving_region, cmds |-> <<>>],
                    ev, rl, rr)

InitMatch ==
    /\ stage = "First"
    /\ done = {}
    /\ balls = <<>>
    /\ serving_region \in InitialRegions
    /\ cmds = <<>>
    /\ bounce_evs = <<>>
    /\ score_evs = <<>>
    /\ game_over_evs = <<>>
    /\ tween_evs = <<>>
    /\ hit_evs = <<>>
    /\ score = [left_player |-> PlayerScore(0, 0), right_player |-> PlayerScore(0, 0),
                left_has_won |-> "None"]
    /\ net = [target |-> 0, current_offset |-> 0, reset_queued |-> TRUE]
    /\ net_t = [x |-> 0, anim |-> [on |-> FALSE, start |-> 0, end |-> 0, left |-> 0]]
    /\ swing = [p \in Players |-> PlayerSwing("Ready", 0)]
    /\ regions_target = 0
    /\ game_entered(serving_region)
    /\ players_spawned

\* The touchdowns the match is played with: a first fault, a double fault and a
\* rally ball landing out of bounds after a hit of either player.
PlayedBalls(sr) ==
    {b \in DecidingBalls(sr) : b.status.tag = "Rally" => b.region = "OutOfBounds"}
PlayedEvent(b) == BallBouncedEvt(1, 1, 1, b.status, b.region)

\* A ball is served, hit and lands no sooner than the last point's
\* ScoreChangedEvt has been read, the net's tween of 400 ms has ended and
\* handle_net_offset has run once more.
rally_played ==
    /\ score_evs = <<>>
    /\ cmds = <<>>
    /\ ~net_t.anim.on
    /\ ~net.reset_queued
    /\ net.current_offset = net.target

\* on_ball_bounced (player.rs:718-812) for the BallBouncedEvt of the frame, if any
decide_point ==
    /\ Ready("on_ball_bounced")
    /\ balls = <<>>
    /\ \/ UNCHANGED <<score, score_evs, game_over_evs, serving_region>>
       \/ /\ rally_played
          /\ \E b \in PlayedBalls(serving_region) :
             \E rl \in get_random_left, rr \in get_random_right :
                LET w == decided(b, PlayedEvent(b), rl, rr)
                IN \* one draw stands for all when the generator's result is not used
                   /\ w = decided(b, PlayedEvent(b), "TopLeft", "TopRight")
                         => rl = "TopLeft" /\ rr = "TopRight"
                   /\ w.score.left_player.games <= MaxMatchGames
                   /\ w.score.right_player.games <= MaxMatchGames
                   /\ score' = w.score
                   /\ score_evs' = w.score_evs
                   /\ game_over_evs' = w.game_over_evs
                   /\ serving_region' = w.serving_region
    /\ Ran("on_ball_bounced")
    /\ UNCHANGED <<balls, cmds, bounce_evs, tween_evs, net, net_t, swing, hit_evs,
                   regions_target>>
    /\ UNCHANGED <<game_state, reset_in, initial_region, player_aim>>

\* The start of a frame without a ball: Events::update, the animator (the net's
\* tween moves on), on_tween_completed and move_ball, which meet no entity.
match_frame_start ==
    /\ stage = "First"
    /\ balls = <<>> /\ tween_evs = <<>> /\ bounce_evs = <<>>
    /\ net_t' = net_tween_step(net_t)
    /\ stage' = "Update"
    /\ done' = Range(UpdatePrelude) \cup {"move_ball"}
    /\ UNCHANGED <<balls, cmds, bounce_evs, score_evs, game_over_evs, tween_evs, score,
                   net, serving_region, swing, hit_evs, regions_target>>
    /\ UNCHANGED <<game_state, reset_in, initial_region, player_aim>>

\* The rest of Update and PostUpdate without a ball and without a released swing
\* button: handle_swing_input, handle_collisions, handle_regions and
\* handle_action_cooldown write nothing, the Commands of Update are applied.
match_stages_end ==
    /\ stage = "Update"
    /\ balls = <<>>
    /\ done = Range(UpdatePrelude) \cup UpdateCore
    /\ LET w == apply_cmds([balls |-> balls, net_t |-> net_t,
                             regions_target |-> regions_target], cmds)
       IN /\ net_t' = w.net_t
          /\ regions_target' = w.regions_target
    /\ cmds' = <<>>
    /\ stage' = "Last"
    /\ done' = {}
    /\ UNCHANGED <<balls, bounce_evs, score_evs, game_over_evs, tween_evs, score, net,
                   serving_region, swing, hit_evs>>
    /\ UNCHANGED <<game_state, reset_in, initial_region, player_aim>>

NextMatch ==
    \/ match_frame_start
    \/ decide_point
    \/ handle_net_offset_sys
    \/ match_stages_end
    \/ on_game_over
    \/ apply_buffers

SpecMatch == InitMatch /\ [][NextMatch]_vars

\* the GameOverEvt sent by the step
new_game_over_evs ==
    IF Len(game_over_evs') > Len(game_over_evs)
    THEN SubSeq(game_over_evs', Len(game_over_evs) + 1, Len(game_over_evs'))
    ELSE <<>>

\* C11: once Score.left_has_won is Some(v), no later step makes it Some(not v)
\* and no later step sends a GameOverEvt naming the other side.
C11_MatchCompletionTerminal ==
    [][score.left_has_won # "None"
          => /\ score'.left_has_won = score.left_has_won
             /\ \A k \in DOMAIN new_game_over_evs :
                   Some(new_game_over_evs[k].left_has_won) = score.left_has_won]_vars

----------------------------------------------------------------------------
(* Ball.speed on its own: the hits of handle_collisions and the touchdowns of
   move_ball, from the speed a spawned ball has.  Speeds are in hundredths of
   the code's unit, strengths in fortieths of 1. *)

SpeedUnit == 100
StrengthUnit == 40
BALL_MIN_SPEED == 350
BALL_MAX_SPEED == 2750
\* hits and touchdowns since the last hit a ball is followed to
MaxHits == 3
MaxDowns == 3

\* Ball { ..Default::default() } (ball.rs:474-480): speed 0.0
SpawnSpeed == 0

\* The strengths a swing is Active with: 0.125 of the computer's swing
\* (ai_player_controller.rs:322), 0.4 to 1 of get_swing_multiplier_clamped.
Strengths == {5, 16, 28, 40}

\* f32::lerp of the interpolation crate: a + (b - a) * t
lerp(a, b, t) == a + ((b - a) * t) \div StrengthUnit

\* Mutant: the hit without .min(BALL_MAX_SPEED)
hit_speed_no_min(speed, strength) ==
    lerp(BALL_MIN_SPEED * SpeedUnit, BALL_MAX_SPEED * SpeedUnit, strength) + speed \div 8

\* ball.speed after a hit of the given strength (ball.rs:236-238)
hit_speed(speed, strength) ==
    LET carried == lerp(BALL_MIN_SPEED * SpeedUnit, BALL_MAX_SPEED * SpeedUnit, strength)
                       + speed \div 8
    IN IF carried < BALL_MAX_SPEED * SpeedUnit THEN carried ELSE BALL_MAX_SPEED * SpeedUnit

\* ball.speed *= 0.8 at a touchdown (ball.rs:165)
bounce_speed(speed) == (speed * 4) \div 5

\* The one ball followed: its speed, the hits it has taken and the touchdowns
\* since the last of them.
FlightBall(speed, hits, downs) == [speed |-> speed, hits |-> hits, downs |-> downs]

InitSpeed ==
    /\ stage = "Flight"
    /\ done = {}
    /\ balls = <<FlightBall(SpawnSpeed, 0, 0)>>
    /\ cmds = <<>>
    /\ bounce_evs = <<>>
    /\ score_evs = <<>>
    /\ game_over_evs = <<>>
    /\ tween_evs = <<>>
    /\ hit_evs = <<>>
    /\ score = [left_player |-> PlayerScore(0, 0), right_player |-> PlayerScore(0, 0),
                left_has_won |-> "None"]
    /\ net = [target |-> 0, current_offset |-> 0, reset_queued |-> TRUE]
    /\ net_t = [x |-> 0, anim |-> [on |-> FALSE, start |-> 0, end |-> 0, left |-> 0]]
    /\ serving_region = "BottomLeft"
    /\ swing = [p \in Players |-> PlayerSwing("Ready", 0)]
    /\ regions_target = 0
    /\ game_entered(serving_region)
    /\ players_spawned

\* handle_collisions (ball.rs:208-310): an Active swing in reach hits the ball
speed_on_hit ==
    /\ stage = "Flight"
    /\ balls[1].hits < MaxHits
    /\ \E strength \in Strengths :
          balls' = <<FlightBall(hit_speed(balls[1].speed, strength), balls[1].hits + 1, 0)>>
    /\ UNCHANGED <<stage, done, cmds, bounce_evs, score_evs, game_over_evs, tween_evs,
                   score, net, net_t, serving_region, swing, hit_evs,
                   regions_target>>
    /\ UNCHANGED <<game_state, reset_in, initial_region, player_aim>>

\* move_ball (ball.rs:150-165): a touchdown of a ball that moves; a ball that was
\* never hit has dir == Vec2::ZERO and is skipped.
speed_on_touchdown ==
    /\ stage = "Flight"
    /\ balls[1].hits >= 1
    /\ balls[1].downs < MaxDowns
    /\ balls' = <<FlightBall(bounce_speed(balls[1].speed), balls[1].hits, balls[1].downs + 1)>>
    /\ UNCHANGED <<stage, done, cmds, bounce_evs, score_evs, game_over_evs, tween_evs,
                   score, net, net_t, serving_region, swing, hit_evs,
                   regions_target>>
    /\ UNCHANGED <<game_state, reset_in, initial_region, player_aim>>

NextSpeed == speed_on_hit \/ speed_on_touchdown

SpecSpeed == InitSpeed /\ [][NextSpeed]_vars

\* strengths and pre-hit speeds the hit is evaluated with at every state
AnyStrengths == 0..StrengthUnit
AnySpeeds == {0, 1, 34999, 35000, 275000, 275001, 1920000, 2200000, 100000000}
in_speed_range(speed) ==
    BALL_MIN_SPEED * SpeedUnit <= speed /\ speed <= BALL_MAX_SPEED * SpeedUnit

\* C12: after every hit handle_collisions resolves, for any strength in 0..1 and
\* any non-negative speed before the hit, the ball's speed is at least
\* BALL_MIN_SPEED (350) and at most BALL_MAX_SPEED (2750).
C12_HitSpeedClamp ==
    stage = "Flight" =>
    /\ (balls[1].hits >= 1 /\ balls[1].downs = 0) => in_speed_range(balls[1].speed)
    /\ \A strength \in AnyStrengths :
       \A speed \in AnySpeeds \cup {balls[1].speed} :
          in_speed_range(hit_speed(speed, strength))

\* C12 witness: a second hit at full strength, where the sum is above
\* BALL_MAX_SPEED and the speed is cut back to it
C12_Witness ==
    /\ stage = "Flight"
    /\ balls[1].hits = 2
    /\ balls[1].downs = 0
    /\ balls[1].speed = BALL_MAX_SPEED * SpeedUnit

\* C13: in every state in which the ball has been hit at least once its speed is
\* within [BALL_MIN_SPEED, BALL_MAX_SPEED], whatever the number of touchdowns
\* since.
C13_SpeedClampedInFlight ==
    (stage = "Flight" /\ balls[1].hits >= 1) => in_speed_range(balls[1].speed)

\* C14: on the four playable regions get_inverse is an involution and its result
\* has the opposite value of each of is_left, is_right, is_top and is_bottom;
\* OutOfBounds has no inverse (None).  Stated of every region and, with them, of
\* the regions the balls of the state are served from and lie in.
C14_InverseInvolution ==
    /\ \A r \in PlayableRegions \cup {balls[i].region : i \in AliveIds}
                  \cup {balls[i].status.region : i \in AliveIds} :
          IF r = "OutOfBounds"
          THEN get_inverse(r) = "None"
          ELSE /\ get_inverse(r) \in PlayableRegions
               /\ get_inverse(get_inverse(r)) = r
               /\ is_left(get_inverse(r)) = ~is_left(r)
               /\ is_right(get_inverse(r)) = ~is_right(r)
               /\ is_top(get_inverse(r)) = ~is_top(r)
               /\ is_bottom(get_inverse(r)) = ~is_bottom(r)
    /\ get_inverse("OutOfBounds") = "None"

\* C14 witness: a serve from TopRight has landed in the inverse region,
\* BottomLeft, and eval_serve has found it good
C14_Witness ==
    /\ stage = "Update"
    /\ Len(balls) = 1
    /\ serving_region = "TopRight"
    /\ balls[1].bounced
    /\ balls[1].region = get_inverse(serving_region)
    /\ balls[1].region = "BottomLeft"
    /\ balls[1].status = Rally(2)

\* the shift the claims give one ScoreChangedEvt: 30 for a point and 90 for a
\* game, towards the right for the left side and towards the left for the right
shift_of(ev) ==
    (IF ev.left_side_scored THEN 1 ELSE -1) * (IF ev.score_type = "Game" THEN 90 ELSE 30)
RECURSIVE shift_total(_)
shift_total(evs) == IF evs = <<>> THEN 0 ELSE shift_of(Head(evs)) + shift_total(Tail(evs))
\* games and points of both sides together
games_of(sc) == sc.left_player.games + sc.right_player.games

\* C15: net.target changes only in a step of handle_net_offset that reads
\* ScoreChangedEvts or meets a queued reset; without a reset it changes by the
\* sum of +-30 for each point event and +-90 for each game event, positive for
\* the left side.  A point that wins a game sends one event, of type Game, so
\* it shifts the net by 90 only; the first point of a match, won by the left
\* side, leaves the target at 30.
C15_NetTargetShift ==
    /\ [][/\ net'.target # net.target
                => /\ step_of("handle_net_offset")
                   /\ (score_evs # <<>> \/ net.reset_queued)
          /\ (step_of("handle_net_offset") /\ ~net.reset_queued)
                => net'.target = net.target + shift_total(score_evs)
          /\ (step_of("on_ball_bounced") /\ score' # score)
                => /\ Len(new_score_evs) = 1
                   /\ new_score_evs[1].score_type
                         = IF games_of(score') > games_of(score) THEN "Game" ELSE "Point"]_vars
    /\ []((/\ stage # "Ledger" /\ stage # "Flight"
           /\ score.left_player = PlayerScore(1, 0)
           /\ score.right_player = PlayerScore(0, 0)
           /\ score_evs = <<>>)
              => net.target = 30)

\* C15 witness: handle_net_offset has read the Game event of the left side's
\* first game, won to love: three points and a game, 3 * 30 + 90
C15_Witness ==
    /\ stage = "Update"
    /\ "handle_net_offset" \in done
    /\ score_evs = <<>>
    /\ score.left_player = PlayerScore(0, 1)
    /\ score.right_player = PlayerScore(0, 0)
    /\ net.target = 180
    /\ net.current_offset = 90

\* C16: in the tick in which handle_net_offset applies a score change,
\* net.current_offset is the new net.target when the tick ends (no other system
\* writes NetOffset, so when the system's step ends), whatever the tween has done.
C16_CurrentOffsetImmediate ==
    [][(step_of("handle_net_offset") /\ net'.target # net.target)
          => net'.current_offset = net'.target]_vars

\* the commands of the step that rebuild the region colliders
new_resizes == SelectSeq(new_cmds, LAMBDA c : c.op = "resize_regions")

\* C17: when a score change takes |net.target| strictly above win_treshold,
\* handle_net_offset sends one GameOverEvt whose left_has_won is net.target > 0
\* and does not rebuild the region colliders in that tick; when the changed
\* target is at or below the threshold it sends no GameOverEvt and rebuilds the
\* regions around the new target.
C17_ThresholdGameOver ==
    [][(step_of("handle_net_offset") /\ net'.target # net.target)
          => IF net'.target > 330 \/ net'.target < -330
             THEN /\ new_game_over_evs = <<[left_has_won |-> net'.target > 0]>>
                  /\ new_resizes = <<>>
             ELSE /\ game_over_evs' = game_over_evs
                  /\ new_resizes = <<CmdResizeRegions(net'.target)>>]_vars

\* C17 witness: the left side has won two games to love; the Game event has
\* taken the target from 270 to 360, the GameOverEvt is sent and the regions
\* stay as they were built for 270
C17_Witness ==
    /\ stage = "Last"
    /\ done = {}
    /\ net.target = 360
    /\ game_over_evs = <<[left_has_won |-> TRUE]>>
    /\ regions_target = 270
    /\ score.left_has_won = "None"

\* the BallHitEvt sent by the step for ball i, in the order sent
new_hits(i) ==
    SelectSeq(SubSeq(hit_evs', Len(hit_evs) + 1, Len(hit_evs')), LAMBDA e : e.ball_e = i)
\* the status the claim gives a ball of status st hit by the players of hs in turn
RECURSIVE after_hits(_, _)
after_hits(st, hs) ==
    IF hs = <<>> THEN st
    ELSE LET p == Head(hs).player_id
         IN after_hits(IF st.tag = "Rally" \/ (st.tag = "Serve" /\ st.player # p)
                       THEN [tag |-> "Rally", region |-> "OutOfBounds", faults |-> 0,
                             player |-> p]
                       ELSE st,
                       Tail(hs))

\* C18: a hit by a player other than the server on a ball in Serve makes it
\* Rally(hitter), any hit on a ball in Rally makes it Rally(hitter), no other hit
\* changes the status; and the player of a Rally status is written only by such
\* a hit or by the touchdown that finds a serve good, which records the server:
\* so it is the most recent hitter, or the server after a good serve.
C18_StatusOnHit ==
    [][\A i \in DOMAIN balls :
          (balls[i].alive /\ balls'[i].alive)
             => /\ step_of("handle_collisions")
                      => balls'[i].status = after_hits(balls[i].status, new_hits(i))
                /\ (balls'[i].status.tag = "Rally" /\ balls'[i].status # balls[i].status)
                      => \/ /\ step_of("handle_collisions")
                            /\ new_hits(i) # <<>>
                            /\ balls'[i].status.player
                                  = new_hits(i)[Len(new_hits(i))].player_id
                         \/ /\ step_of("move_ball")
                            /\ balls'[i].bounced
                            /\ balls[i].status.tag = "Serve"
                            /\ balls'[i].status.player = balls[i].status.player]_vars

\* C18 witness: the receiver has volleyed the left player's serve before it
\* bounced; the ball is in Rally with the receiver as its player
C18_Witness ==
    /\ stage = "PostUpdate"
    /\ "handle_collisions" \in done
    /\ Len(balls) = 1
    /\ serving_region = "BottomLeft"
    /\ balls[1].count = 0
    /\ balls[1].status = Rally(2)
    /\ hit_evs # <<>>
    /\ hit_evs[Len(hit_evs)] = BallHitEvt(1, 2)

\* the BallHitEvt sent by the step for a hit of player p
new_hits_by(p) ==
    SelectSeq(SubSeq(hit_evs', Len(hit_evs) + 1, Len(hit_evs')), LAMBDA e : e.player_id = p)

\* C19: a step sends at most one BallHitEvt for a player, whatever the number
\* of balls in reach; the hit finds the swing Active and leaves it in Cooldown;
\* and a swing becomes Active from Ready only.  So between a swing entering
\* Active and its return to Ready there is at most one BallHitEvt of that swing.
C19_OneHitPerSwing ==
    [][\A p \in Players :
          /\ Len(new_hits_by(p)) <= 1
          /\ new_hits_by(p) # <<>>
                => /\ step_of("handle_collisions")
                   /\ swing[p].status = "Active"
                   /\ swing'[p].status = "Cooldown"
          /\ (swing'[p].status = "Active" /\ swing[p].status # "Active")
                => swing[p].status = "Ready"]_vars

\* C19 witness: a decided ball and the ball spawned after it are both alive and
\* in reach of the left player, whose swing has hit the first of them and is in
\* Cooldown; no second BallHitEvt was sent
C19_Witness ==
    /\ stage = "PostUpdate"
    /\ "handle_collisions" \in done
    /\ Len(balls) = 2
    /\ balls[1].alive /\ balls[1].status = Used
    /\ balls[2].alive /\ balls[2].status.tag = "Serve"
    /\ in_reach(1, balls[1].x, net_t.x)
    /\ in_reach(1, balls[2].x, net_t.x)
    /\ hit_evs = <<BallHitEvt(1, 1)>>
    /\ swing[1].status = "Cooldown"

\* the spawn_ball commands among cs
spawns_in(cs) == SelectSeq(cs, LAMBDA c : c.op = "spawn_ball")

\* Ball b is Used in w and w.cmds spawn exactly one ball: in Serve of w's serving
\* region, with the fault count carried and that region's player as the server.
respawned(w, b) ==
    LET sp == spawns_in(w.cmds)
    IN /\ w.balls[1].status = Used
       /\ Len(sp) = 1
       /\ sp[1].ball.status
             = Serve(w.serving_region,
                     IF b.status.tag = "Fault" /\ b.status.faults = 1 THEN 1 ELSE 0,
                     IF is_left(w.serving_region) THEN 1 ELSE 2)
       /\ sp[1].ball.region = w.serving_region

----------------------------------------------------------------------------
(* C21: bounce events and the frame *)

\* C21: every BallBouncedEvt on_ball_bounced is about to read was sent by
\* move_ball in the same frame, and the ball it names still has the status and
\* the region it had at the touchdown.
C21_BounceResolvedInTick ==
    Ready("on_ball_bounced") =>
    \A k \in DOMAIN bounce_evs :
       LET ev == bounce_evs[k]
       IN /\ ev.age = 0
          /\ balls[ev.ball_e].alive =>
                /\ balls[ev.ball_e].status = ev.at_status
                /\ balls[ev.ball_e].region = ev.at_region

----------------------------------------------------------------------------
(* C22: the serve after a first fault *)

\* C22: when on_ball_bounced resolves a ball in Fault(1, player), the serving
\* region stays, no point is awarded and the ball spawned is in
\* Serve(serving_region, 1, player), player being the serving region's player;
\* when that ball touches down in the inverse of its serve region, move_ball makes
\* it Rally(player) and the score stays as it is; and a ball in Fault is never in
\* Rally or Serve afterwards.
C22_ReServeAfterFault ==
    [][\A i \in DOMAIN balls :
          /\ (/\ step_of("on_ball_bounced")
              /\ balls[i].alive
              /\ balls[i].status.tag = "Fault"
              /\ balls[i].status.faults = 1
              /\ events_for(i) # <<>>) =>
                /\ serving_region' = serving_region
                /\ score' = score
                /\ new_score_evs = <<>>
                /\ balls[i].status.player = get_player_id(serving_region)
                /\ balls'[i].status = Used
                /\ spawned_status = {Serve(serving_region, 1, balls[i].status.player)}
          /\ (/\ touches_down(i)
              /\ balls[i].status.tag = "Serve"
              /\ balls[i].status.faults = 1
              /\ balls[i].region = get_inverse(balls[i].status.region)) =>
                /\ balls'[i].status = Rally(balls[i].status.player)
                /\ score' = score
                /\ score_evs' = score_evs
          /\ (balls[i].status.tag = "Fault" /\ i \in DOMAIN balls') =>
                balls'[i].status.tag \in {"Fault", "Used"}]_vars

\* C22 witness: without any point played, the second ball, served after the first
\* fault, has touched down in this frame and is in Rally
C22_Witness ==
    /\ stage = "Update"
    /\ "move_ball" \in done
    /\ score.left_player = PlayerScore(0, 0)
    /\ score.right_player = PlayerScore(0, 0)
    /\ Len(balls) = 2
    /\ balls[2].alive
    /\ balls[2].status.tag = "Rally"
    /\ balls[2].bounced
    /\ balls[2].changed

----------------------------------------------------------------------------
(* C23: the legal bounce *)

\* the BallBouncedEvt is of a first bounce of a ball in Rally in a playable region
legal_bounce(ev) ==
    /\ ev.at_status.tag = "Rally"
    /\ ev.bounce_count = 1
    /\ ev.at_region # "OutOfBounds"

\* C23: when on_ball_bounced resolves the touchdown of a ball that was in Rally,
\* with bounce_count 1, in a region other than OutOfBounds, the ball keeps its
\* status and is awarded to nobody; and when these are the only events it reads,
\* the score stays, no ScoreChangedEvt is sent (the net target stays) and no ball
\* is spawned.
C23_LegalBounceNoEffect ==
    [][step_of("on_ball_bounced") =>
          /\ \A k \in DOMAIN bounce_evs :
                LET ev == bounce_evs[k]
                    i == ev.ball_e
                IN (legal_bounce(ev) /\ balls[i].alive /\ Len(events_for(i)) = 1) =>
                      /\ balls'[i].status = balls[i].status
                      /\ balls'[i].awards = balls[i].awards
          /\ (\A k \in DOMAIN bounce_evs :
                 legal_bounce(bounce_evs[k]) /\ balls[bounce_evs[k].ball_e].alive) =>
                /\ score' = score
                /\ new_score_evs = <<>>
                /\ new_cmds = <<>>
                /\ serving_region' = serving_region]_vars

----------------------------------------------------------------------------
(* C24: the bounce count and the hit *)

\* C24: right after handle_collisions has run, the bounce count of every ball it
\* sent a BallHitEvt for is 0.
C24_HitResetsBounceCount ==
    (stage = "PostUpdate" /\ done = {"handle_collisions"}) =>
    \A k \in DOMAIN hit_evs : balls[hit_evs[k].ball_e].count = 0

----------------------------------------------------------------------------
(* C25: the ball at rest *)

\* C25: move_ball leaves a ball whose direction is zero as it is and sends no
\* BallBouncedEvt for it; every ball is spawned with direction zero, and the
\* direction of a ball leaves zero only by a hit in handle_collisions.
C25_IdleBallSkipped ==
    [][/\ step_of("move_ball") =>
             \A i \in AliveIds :
                balls[i].dir = 0 =>
                   /\ balls'[i] = balls[i]
                   /\ \A k \in DOMAIN new_bounce_evs : new_bounce_evs[k].ball_e # i
       /\ \A k \in DOMAIN new_cmds :
             new_cmds[k].op = "spawn_ball" => new_cmds[k].ball.dir = 0
       /\ \A i \in DOMAIN balls :
             (balls[i].alive /\ balls[i].dir = 0 /\ balls'[i].dir # 0) =>
                /\ step_of("handle_collisions")
                /\ \E k \in DOMAIN hit_evs' : hit_evs'[k].ball_e = i]_vars

\* C25 witness: move_ball has run in a frame in which the ball served after a
\* point is at rest next to the ball of that point, which is still scaling out
C25_Witness ==
    /\ stage = "Update"
    /\ "move_ball" \in done
    /\ Len(balls) = 2
    /\ balls[1].alive
    /\ balls[1].dir # 0
    /\ balls[2].alive
    /\ balls[2].dir = 0
    /\ balls[2].status.tag = "Serve"

----------------------------------------------------------------------------
(* C26: handle_regions as a function of the ball and the collision events *)

\* Where the ball may be when the physics step reports: out on either side, deep
\* in either half, and next to the net on either side.
RegionXs == {-(COURT_RIGHT + 40), -(COURT_RIGHT - 20), -20, 20, COURT_RIGHT - 20,
             COURT_RIGHT + 40}

\* The collision events of one physics step: of the ball (entity 1) with any of
\* the four region colliders, and of another entity (2), which handle_regions
\* skips for the ball (ball.rs:329-337).
RegionEvents ==
    {CollisionEvent(1, r, st) : r \in PlayableRegions, st \in BOOLEAN}
        \cup {CollisionEvent(2, "TopLeft", TRUE)}
RegionBatches == UNION {[1..n -> RegionEvents] : n \in 0..MaxRegionEvs}

\* The ball of the first serve when handle_regions is about to run.
InitRegions ==
    /\ stage = "PostUpdate"
    /\ done = {"handle_collisions"}
    /\ serving_region \in InitialRegions
    /\ balls = <<spawn_ball(serving_region, 0, get_player_id(serving_region))>>
    /\ cmds = <<>>
    /\ bounce_evs = <<>>
    /\ score_evs = <<>>
    /\ game_over_evs = <<>>
    /\ tween_evs = <<>>
    /\ hit_evs = <<>>
    /\ score = [left_player |-> PlayerScore(0, 0), right_player |-> PlayerScore(0, 0),
                left_has_won |-> "None"]
    /\ net = [target |-> 0, current_offset |-> 0, reset_queued |-> TRUE]
    /\ net_t = [x |-> 0, anim |-> [on |-> FALSE, start |-> 0, end |-> 0, left |-> 0]]
    /\ swing = [p \in Players |-> PlayerSwing("Ready", 0)]
    /\ regions_target = 0
    /\ game_entered(serving_region)
    /\ players_spawned

\* handle_regions (ball.rs:313-396) on any batch of collision events
detect_regions ==
    /\ Ready("handle_regions")
    /\ \E evs \in RegionBatches, y_out \in BOOLEAN :
          balls' = [i \in DOMAIN balls |-> regions_one(balls[i], i, evs, y_out)]
    /\ Ran("handle_regions")
    /\ UNCHANGED <<cmds, bounce_evs, score_evs, game_over_evs, tween_evs, score, net,
                   net_t, serving_region, swing, hit_evs, regions_target>>
    /\ UNCHANGED <<game_state, reset_in, initial_region, player_aim>>

\* The frame up to the next run of handle_regions: move_ball has moved the ball
\* and has left the bounce count as it was, or one higher after a touchdown
\* (ball.rs:136-160).
ball_moved ==
    /\ stage = "PostUpdate"
    /\ "handle_regions" \in done
    /\ \E x \in RegionXs, c \in {balls[1].count, balls[1].count + 1} :
          /\ c <= MaxCount
          /\ balls' = <<[balls[1] EXCEPT !.prev_x = balls[1].x, !.x = x, !.count = c]>>
    /\ done' = {"handle_collisions"}
    /\ UNCHANGED <<stage, cmds, bounce_evs, score_evs, game_over_evs, tween_evs, score,
                   net, net_t, serving_region, swing, hit_evs, regions_target>>
    /\ UNCHANGED <<game_state, reset_in, initial_region, player_aim>>

NextRegions == detect_regions \/ ball_moved

SpecRegions == InitRegions /\ [][NextRegions]_vars

\* the indices of the events of batch evs that are enter (started) or exit events
\* of ball ball_e
enters_of(evs, ball_e) == {k \in DOMAIN evs : evs[k].ball_e = ball_e /\ evs[k].started}
exits_of(evs, ball_e) == {k \in DOMAIN evs : evs[k].ball_e = ball_e /\ ~evs[k].started}
last_of(ks) == CHOOSE k \in ks : \A j \in ks : j <= k
changes_side(r1, r2) == (is_left(r1) /\ is_right(r2)) \/ (is_right(r1) /\ is_left(r2))

\* C26: for every batch of collision events handle_regions may read, the ball's
\* region afterwards is the region of the batch's last enter event of the ball if
\* there is one; OutOfBounds if there is none, the batch has an exit event of the
\* ball from a playable region and the ball lies outside the court's bounding
\* box; and the region it was otherwise.  When the region has changed from a
\* left to a right quadrant or the reverse the bounce count is 0, otherwise it is
\* what it was, and nothing else of the ball has changed.
C26_RegionDetection ==
    Ready("handle_regions") =>
    \A evs \in RegionBatches, y_out \in BOOLEAN :
       LET b == balls[1]
           a == regions_one(b, 1, evs, y_out)
           enters == enters_of(evs, 1)
           exits == exits_of(evs, 1)
           outside == b.x < -COURT_RIGHT \/ b.x > COURT_RIGHT \/ y_out
       IN /\ a.region = IF enters # {} THEN evs[last_of(enters)].region
                        ELSE IF exits # {} /\ outside THEN "OutOfBounds"
                        ELSE b.region
          /\ a.count = IF changes_side(b.region, a.region) THEN 0 ELSE b.count
          /\ a = [b EXCEPT !.region = a.region, !.count = a.count]

\* C26 witness: the ball served from BottomLeft has bounced, flown over the net
\* and entered TopRight: handle_regions has set the region and the count is 0
C26_Witness ==
    /\ stage = "PostUpdate"
    /\ "handle_regions" \in done
    /\ balls[1].status = Serve("BottomLeft", 0, 1)
    /\ balls[1].prev_x < 0
    /\ balls[1].x > 0
    /\ balls[1].region = "TopRight"
    /\ balls[1].count = 0

----------------------------------------------------------------------------
(* C27: the region colliders *)

BASE_VIEW_WIDTH == 1920
BASE_VIEW_HEIGHT == 1080
\* setup (level.rs:144-152): thickness, height, y, region_x, region_y and the
\* half extents base_region_size of a region collider
thickness == 12
court_height == BASE_VIEW_HEIGHT - 320
court_y == court_height \div 2
court_width == COURT_RIGHT * 2 + thickness
region_x == COURT_RIGHT \div 2 + thickness \div 4
region_y == court_y \div 2 + thickness \div 4
base_region_size == [x |-> court_width \div 4, y |-> court_height \div 4 + thickness \div 4]

\* spawn_region (level.rs:325-337): the entity's CourtRegion, its translation and
\* the half extents of its Cuboid
spawn_region(region, x, y, region_size) ==
    [region |-> region, x |-> x, y |-> y, half_extends |-> region_size]

\* the four colliders of setup (level.rs:180-189)
setup_regions ==
    <<spawn_region("TopLeft", -region_x, region_y, base_region_size),
      spawn_region("BottomLeft", -region_x, -region_y, base_region_size),
      spawn_region("TopRight", region_x, region_y, base_region_size),
      spawn_region("BottomRight", region_x, -region_y, base_region_size)>>

\* Mutant: the right quadrants are resized like the left ones.
resize_region_same_sign(rg, target) ==
    LET x == IF is_left(rg.region) THEN -region_x + target \div 2
             ELSE region_x + target \div 2
        extends == [base_region_size EXCEPT !.x = @ + target \div 2]
    IN spawn_region(rg.region, x, rg.y, extends)

\* "resize regions" (level.rs:389-401): the entity spawned for region entity rg;
\* rg itself is despawned
resize_region(rg, target) ==
    LET x == IF is_left(rg.region) THEN -region_x + target \div 2
             ELSE region_x + target \div 2
        side_mult == IF is_left(rg.region) THEN 1 ELSE -1
        extends == [base_region_size EXCEPT !.x = @ + (target \div 2) * side_mult]
    IN spawn_region(rg.region, x, rg.y, extends)

\* the entities of region_q after the resize commands have been applied
resize_regions(rs, target) == [i \in DOMAIN rs |-> resize_region(rs[i], target)]

\* The entities of region_q in the current state: those of setup, resized around
\* regions_target.
region_colliders == resize_regions(setup_regions, regions_target)

\* the resize_regions commands handle_net_offset would queue in this state
resizes_now ==
    LET w == handle_net_offset(net, net_t.x, score_evs, cmds, game_over_evs)
    IN SelectSeq(SubSeq(w.cmds, Len(cmds) + 1, Len(w.cmds)),
                 LAMBDA c : c.op = "resize_regions")

\* C27: whenever handle_net_offset resizes the regions, for a net target t, then
\* |t| <= win_treshold and afterwards there are exactly four region colliders,
\* one per playable quadrant; the half width of the left ones is the base half
\* width + t/2 and that of the right ones the base half width - t/2; the outer
\* edges are those of setup; the left quadrants end and the right ones begin at
\* x = t; and every quadrant has the y and the half height it had.
C27_SymmetricResize ==
    Ready("handle_net_offset") =>
    \A k \in DOMAIN resizes_now :
       LET t == resizes_now[k].end
           rs == resize_regions(region_colliders, t)
       IN /\ Abs(t) <= WIN_TRESHOLD
          /\ Len(rs) = 4
          /\ \A r \in PlayableRegions :
                Cardinality({i \in DOMAIN rs : rs[i].region = r}) = 1
          /\ \A i \in DOMAIN rs :
                /\ rs[i].half_extends.x > 0
                /\ rs[i].y = setup_regions[i].y
                /\ rs[i].y = region_colliders[i].y
                /\ rs[i].half_extends.y = base_region_size.y
                /\ IF is_left(rs[i].region)
                   THEN /\ 2 * rs[i].half_extends.x = 2 * base_region_size.x + t
                        /\ rs[i].x - rs[i].half_extends.x
                              = setup_regions[i].x - base_region_size.x
                        /\ rs[i].x + rs[i].half_extends.x = t
                   ELSE /\ 2 * rs[i].half_extends.x = 2 * base_region_size.x - t
                        /\ rs[i].x + rs[i].half_extends.x
                              = setup_regions[i].x + base_region_size.x
                        /\ rs[i].x - rs[i].half_extends.x = t
          /\ \A i, j \in DOMAIN rs :
                is_left(rs[i].region) /\ is_right(rs[j].region) =>
                   rs[i].half_extends.x + rs[j].half_extends.x = 2 * base_region_size.x

\* C27 witness: the right side is ahead; the regions have been resized around the
\* net target -150 and are about to be resized again, around another target
C27_Witness ==
    /\ Ready("handle_net_offset")
    /\ regions_target = -150
    /\ resizes_now # <<>>
    /\ resizes_now[1].end # regions_target

----------------------------------------------------------------------------
(* C28: a ball whose BallBounce entity is not found *)

\* The body of move_ball's loop for one ball when bounce_q.get_mut(ball.bounce_e)
\* is Ok (found) or Err: the translation and prev_pos are written before the
\* lookup (ball.rs:135-142), the bounce, the serve and the event are inside its
\* if let (ball.rs:144-204).
move_one_lookup(b, ball_e, step, net_x, found) ==
    IF found THEN move_one(b, ball_e, step, net_x)
    ELSE IF ~b.alive \/ b.dir = 0
    THEN [ball |-> b, evs |-> <<>>]
    ELSE LET ball_x == clamp_x(b.x + b.dir * step)
         IN [ball |-> [b EXCEPT !.x = ball_x, !.prev_x = ball_x], evs |-> <<>>]

\* A ball in play at the start of move_ball: at rest or flying either way, in
\* Serve or in Rally, anywhere on or off the court.
LookupBalls(sr) ==
    {[spawn_ball(sr, 0, get_player_id(sr)) EXCEPT
         !.dir = d, !.x = x, !.prev_x = x, !.region = r, !.status = st, !.height = 1] :
        d \in {-1, 0, 1}, x \in RegionXs, r \in CourtRegion,
        st \in {Serve(sr, 0, get_player_id(sr)), Rally(1), Rally(2)}}

InitLookup ==
    /\ stage = "Update"
    /\ done = Range(UpdatePrelude) \cup {"on_ball_bounced", "handle_net_offset"}
    /\ serving_region \in InitialRegions
    /\ \E b \in LookupBalls(serving_region) : balls = <<b>>
    /\ cmds = <<>>
    /\ bounce_evs = <<>>
    /\ score_evs = <<>>
    /\ game_over_evs = <<>>
    /\ tween_evs = <<>>
    /\ hit_evs = <<>>
    /\ score = [left_player |-> PlayerScore(0, 0), right_player |-> PlayerScore(0, 0),
                left_has_won |-> "None"]
    /\ net = [target |-> 0, current_offset |-> 0, reset_queued |-> FALSE]
    /\ net_t = [x |-> 0, anim |-> [on |-> FALSE, start |-> 0, end |-> 0, left |-> 0]]
    /\ swing \in [Players -> {PlayerSwing("Ready", 0), PlayerSwing("Active", SwingTicks)}]
    /\ regions_target = 0
    /\ game_entered(serving_region)
    /\ players_spawned

\* move_ball (ball.rs:112-205) with the lookup of every ball's BallBounce failing
move_ball_lookup_failed ==
    /\ Ready("move_ball")
    /\ \E step \in Steps :
          /\ balls' = [i \in DOMAIN balls |->
                          move_one_lookup(balls[i], i, step, net.current_offset, FALSE).ball]
          /\ bounce_evs' = bounce_evs
                \o move_one_lookup(balls[1], 1, step, net.current_offset, FALSE).evs
    /\ Ran("move_ball")
    /\ UNCHANGED <<cmds, score_evs, game_over_evs, tween_evs, score, net, net_t,
                   serving_region, swing, hit_evs, regions_target>>
    /\ UNCHANGED <<game_state, reset_in, initial_region, player_aim>>

\* the Update stage ends, PostUpdate begins
lookup_update_done ==
    /\ stage = "Update"
    /\ "move_ball" \in done
    /\ stage' = "PostUpdate"
    /\ done' = {}
    /\ UNCHANGED <<balls, cmds, bounce_evs, score_evs, game_over_evs, tween_evs, score,
                   net, net_t, serving_region, swing, hit_evs, regions_target>>
    /\ UNCHANGED <<game_state, reset_in, initial_region, player_aim>>

\* handle_collisions (ball.rs:218-308): the loop over the players is inside the
\* if let of the lookup (ball.rs:219)
handle_collisions_lookup_failed ==
    /\ Ready("handle_collisions")
    /\ Ran("handle_collisions")
    /\ UNCHANGED <<balls, cmds, bounce_evs, score_evs, game_over_evs, tween_evs, score,
                   net, net_t, serving_region, swing, hit_evs, regions_target>>
    /\ UNCHANGED <<game_state, reset_in, initial_region, player_aim>>

\* handle_regions (ball.rs:324-394) iterates the BallBounce entities: a ball
\* without one is not visited
handle_regions_lookup_failed ==
    /\ Ready("handle_regions")
    /\ Ran("handle_regions")
    /\ UNCHANGED <<balls, cmds, bounce_evs, score_evs, game_over_evs, tween_evs, score,
                   net, net_t, serving_region, swing, hit_evs, regions_target>>
    /\ UNCHANGED <<game_state, reset_in, initial_region, player_aim>>

\* the next frame's move_ball is due
lookup_next_frame ==
    /\ stage = "PostUpdate"
    /\ done = {"handle_collisions", "handle_regions"}
    /\ stage' = "Update"
    /\ done' = Range(UpdatePrelude) \cup {"on_ball_bounced", "handle_net_offset"}
    /\ UNCHANGED <<balls, cmds, bounce_evs, score_evs, game_over_evs, tween_evs, score,
                   net, net_t, serving_region, swing, hit_evs, regions_target>>
    /\ UNCHANGED <<game_state, reset_in, initial_region, player_aim>>

NextLookup ==
    \/ move_ball_lookup_failed
    \/ lookup_update_done
    \/ handle_collisions_lookup_failed
    \/ handle_regions_lookup_failed
    \/ lookup_next_frame

SpecLookup == InitLookup /\ [][NextLookup]_vars

\* C28: while the lookup of the ball's BallBounce entity fails, no system changes
\* the ball's position, direction, region or status, and no BallBouncedEvt or
\* BallHitEvt is sent.
C28_MissingBounceSkipped ==
    [][/\ \A i \in DOMAIN balls :
             /\ balls'[i].x = balls[i].x
             /\ balls'[i].dir = balls[i].dir
             /\ balls'[i].region = balls[i].region
             /\ balls'[i].status = balls[i].status
       /\ bounce_evs' = bounce_evs
       /\ hit_evs' = hit_evs]_vars

----------------------------------------------------------------------------
(* C29: the swing that meets no ball *)

\* The first frame of a game in which the players stay out of reach of the ball.
InitSwing == Init

\* CoreStage::First and the systems of Update that run before handle_swing_input;
\* the ball is at rest and no event is waiting, they leave everything as it is.
swing_frame_start ==
    /\ stage = "First"
    /\ stage' = "Update"
    /\ done' = Range(UpdatePrelude) \cup UpdateCore
    /\ hit_evs' = <<>>
    /\ UNCHANGED <<balls, cmds, bounce_evs, score_evs, game_over_evs, tween_evs, score,
                   net, net_t, serving_region, swing, regions_target>>
    /\ UNCHANGED <<game_state, reset_in, initial_region, player_aim>>

\* handle_collisions (ball.rs:208-310) in a frame in which
\* min(ball_dist, ball_bounce_dist) >= AIM_RING_RADIUS for every ball and player
handle_collisions_out_of_range ==
    /\ Ready("handle_collisions")
    /\ LET w == hit_loop([balls |-> balls, swing |-> swing, hit_evs |-> hit_evs], 1, 1, {})
       IN /\ balls' = w.balls
          /\ swing' = w.swing
          /\ hit_evs' = w.hit_evs
    /\ Ran("handle_collisions")
    /\ UNCHANGED <<cmds, bounce_evs, score_evs, game_over_evs, tween_evs, score, net,
                   net_t, serving_region, regions_target>>
    /\ UNCHANGED <<game_state, reset_in, initial_region, player_aim>>

NextSwing ==
    \/ swing_frame_start
    \/ handle_swing_input_sys
    \/ handle_collisions_out_of_range
    \/ handle_regions
    \/ handle_action_cooldown
    \/ on_game_over
    \/ apply_buffers

\* Every frame runs every system: the schedule never stops.
SpecSwing == InitSwing /\ [][NextSwing]_vars /\ WF_vars(NextSwing)

----------------------------------------------------------------------------
(* C30: the swing input and the hit *)

----------------------------------------------------------------------------
(* C31: the point after the last hit.  A ball that a player has just hit is
   followed through the frames that come after, in which no swing is released:
   move_ball, on_ball_bounced, handle_net_offset, the animator and the region
   detection run as in the game. *)

\* The net the point is played at, with the score that has moved it there.
PointNets == {-NET_OFFSET_POINT, 0, NET_OFFSET_POINT}
point_score(n) ==
    [left_player |-> PlayerScore(IF n > 0 THEN 1 ELSE 0, 0),
     right_player |-> PlayerScore(IF n < 0 THEN 1 ELSE 0, 0),
     left_has_won |-> "None"]

\* A ball as handle_collisions leaves it after the hit of player p
\* (ball.rs:233-299): the direction is the player's aim, the bounce starts anew,
\* the status is st.  downs counts the touchdowns since that hit; no system reads it.
HitBall(st, r, x, prev_x, c, y, p) ==
    [alive |-> TRUE, status |-> st, region |-> r, x |-> x, prev_x |-> prev_x,
     dir |-> aim_dir(p), count |-> c, y |-> y, height |-> 1, tween |-> -1,
     awards |-> 0, loser |-> 0, reason |-> "none", bounced |-> FALSE, changed |-> FALSE,
     downs |-> 0]

\* The serve hit by its server from the serving spot, with or without a first fault.
ServedBalls(sr) ==
    {HitBall(Serve(sr, f, get_player_id(sr)), sr, spawn_ball(sr, f, get_player_id(sr)).x,
             0, 0, 0, get_player_id(sr)) : f \in 0..1}

\* A rally ball hit by player p within reach, on the ground or in the air, after
\* no bounce or one bounce on this side.
RalliedBalls(n) ==
    UNION {{HitBall(Rally(px[1]), r, px[2], px[2], c, y, px[1]) :
               r \in CourtRegion, c \in 0..1, y \in 0..1} :
              px \in {q \in Players \X {-(COURT_RIGHT - 20), 0, COURT_RIGHT - 20} :
                         in_reach(q[1], q[2], n)}}

InitPoint ==
    /\ stage = "First"
    /\ done = {}
    /\ \E n \in PointNets :
          /\ net = [target |-> n, current_offset |-> n, reset_queued |-> FALSE]
          /\ net_t = [x |-> n, anim |-> [on |-> FALSE, start |-> 0, end |-> 0, left |-> 0]]
          /\ regions_target = n
          /\ score = point_score(n)
          /\ \/ \E sr \in PlayableRegions :
                   serving_region = sr /\ \E b \in ServedBalls(sr) : balls = <<b>>
             \/ \E sr \in InitialRegions :
                   serving_region = sr /\ \E b \in RalliedBalls(n) : balls = <<b>>
    /\ cmds = <<>>
    /\ bounce_evs = <<>>
    /\ score_evs = <<>>
    /\ game_over_evs = <<>>
    /\ tween_evs = <<>>
    /\ hit_evs = <<>>
    /\ swing = [p \in Players |-> PlayerSwing("Ready", 0)]
    /\ game_entered("BottomLeft")
    /\ players_spawned

\* touchdowns of ball i since its last hit
touchdowns(i) == IF "downs" \in DOMAIN balls[i] THEN balls[i].downs ELSE 0

\* move_ball (ball.rs:112-205); a touchdown is counted on the ball that was hit
move_ball_point ==
    /\ Ready("move_ball")
    /\ \E step \in Steps :
          /\ balls' = [i \in DOMAIN balls |->
                          LET r == move_one(balls[i], i, step, net.current_offset)
                          IN IF "downs" \in DOMAIN balls[i]
                             THEN [r.ball EXCEPT !.downs = @ + Len(r.evs)]
                             ELSE r.ball]
          /\ \A i \in AliveIds :
                /\ balls'[i].count <= MaxCount
                /\ balls'[i].y <= MaxY
          /\ bounce_evs' = bounce_evs \o move_evs(balls, 1, step, net.current_offset)
    /\ Ran("move_ball")
    /\ UNCHANGED <<cmds, score_evs, game_over_evs, tween_evs, score, net, net_t,
                   serving_region, swing, hit_evs, regions_target>>
    /\ UNCHANGED <<game_state, reset_in, initial_region, player_aim>>

\* handle_swing_input (player.rs:666-699) in a frame in which no swing is released
handle_swing_input_idle ==
    /\ Ready("handle_swing_input")
    /\ Ran("handle_swing_input")
    /\ UNCHANGED <<balls, cmds, bounce_evs, score_evs, game_over_evs, tween_evs, score,
                   net, net_t, serving_region, swing, hit_evs, regions_target>>
    /\ UNCHANGED <<game_state, reset_in, initial_region, player_aim>>

NextPoint ==
    \/ events_update
    \/ component_animator_system
    \/ on_tween_completed
    \/ move_ball_point
    \/ on_ball_bounced
    \/ handle_net_offset_sys
    \/ handle_swing_input_idle
    \/ handle_collisions_out_of_range
    \/ handle_regions
    \/ handle_action_cooldown
    \/ on_game_over
    \/ apply_buffers

\* Every frame runs every system: the schedule never stops.
SpecPoint == InitPoint /\ [][NextPoint]_vars /\ WF_vars(NextPoint)

\* the ball that was hit is still in play
undecided == balls[1].alive /\ balls[1].status.tag # "Used"

\* C31: the ball that was hit and is hit no more is decided in the end (the
\* status is Used and a new ball is spawned), and no sooner than it has touched
\* down; it is not decided later than at its third touchdown after the hit: an
\* undecided ball has touched down three times at most.
C31_PointEnds ==
    /\ [](undecided => touchdowns(1) <= 3)
    /\ [](balls[1].alive /\ balls[1].status.tag = "Used" => touchdowns(1) >= 1)
    /\ undecided ~> (balls[1].status.tag = "Used"
                        /\ (queued_spawns # {} \/ Len(balls) >= 2))

\* C31 witness: the ball has touched down a third time since the hit, the
\* BallBouncedEvt of that touchdown is not read yet
C31_Witness ==
    /\ undecided
    /\ touchdowns(1) = 3
    /\ bounce_evs # <<>>

----------------------------------------------------------------------------
(* C32: the reset.  handle_reset_input, start_reset and reset (reset.rs:27-66)
   with the systems entered with GameState::Game, ball::setup (ball.rs:95-110)
   and reset_score (score.rs:214-219).  The systems added with add_system or
   add_system_to_stage run in either state; move_ball, handle_net_offset and
   handle_reset_input run while Game is on top, reset while Reset is. *)

\* Frames the Timer::from_seconds(0.6, false) of start_reset takes.
ResetTicks == 3
\* Ball entities spawned in one run with resets.
MaxResetBalls == 4

\* The game at the start of a frame: the first ball at rest, or served and in the
\* air, at 0-0 or after the first point.
InitReset ==
    /\ stage = "First"
    /\ done = {}
    /\ initial_region \in InitialRegions
    /\ game_state = "Game"
    /\ reset_in = -1
    /\ players_spawned
    /\ \E n \in {0, NET_OFFSET_POINT} :
          /\ net = [target |-> n, current_offset |-> n, reset_queued |-> (n = 0)]
          /\ net_t = [x |-> n, anim |-> [on |-> FALSE, start |-> 0, end |-> 0, left |-> 0]]
          /\ regions_target = n
          /\ score = point_score(n)
          /\ serving_region = initial_region
          /\ \/ balls = <<spawn_ball(serving_region, 0, get_player_id(serving_region))>>
             \/ n # 0 /\ \E b \in ServedBalls(serving_region) : balls = <<b>>
    /\ cmds = <<>>
    /\ bounce_evs = <<>>
    /\ score_evs = <<>>
    /\ game_over_evs = <<>>
    /\ tween_evs = <<>>
    /\ hit_evs = <<>>
    /\ swing = [p \in Players |-> PlayerSwing("Ready", 0)]

RECURSIVE scale_out_cmds(_, _)
\* start_reset's insert(get_scale_out_anim(.., DespawnRecursive)) for the balls
\* i.. of the query; the 350 ms take no more frames than the 450 ms of a decided ball
scale_out_cmds(bs, i) ==
    IF i > Len(bs) THEN <<>>
    ELSE (IF bs[i].alive THEN <<CmdScaleOut(i)>> ELSE <<>>) \o scale_out_cmds(bs, i + 1)

\* handle_reset_input (reset.rs:27-35) with InputAction::Reset just pressed, and
\* start_reset (reset.rs:37-55), which the state driver runs on entering Reset
\* in the same Update stage, after the Commands of the systems that have run
\* were applied.
handle_reset_input ==
    /\ stage = "Update"
    /\ done = StageSystems
    /\ game_state = "Game"
    /\ LET w == apply_cmds([balls |-> balls, net_t |-> net_t,
                             regions_target |-> regions_target], cmds)
       IN /\ Len(w.balls) <= MaxResetBalls - 2
          /\ cmds' = cmds \o scale_out_cmds(w.balls, 1)
    /\ game_state' = "Reset"
    /\ reset_in' = ResetTicks
    /\ UNCHANGED <<player_aim, stage, done, balls, bounce_evs, score_evs, game_over_evs, tween_evs,
                   score, net, net_t, serving_region, swing, hit_evs, regions_target,
                   initial_region>>

\* reset (reset.rs:57-66), the system of on_update(GameState::Reset), once the
\* systems without a state have run.  When the timer has finished the state
\* driver enters Game in the same Update stage: ball::setup and reset_score run,
\* and then the systems of on_update(GameState::Game).
reset ==
    /\ stage = "Update"
    /\ game_state = "Reset"
    /\ Range(UpdatePrelude) \subseteq done
    /\ "on_ball_bounced" \in done
    /\ "move_ball" \notin done
    /\ IF reset_in - 1 > 0
       THEN /\ reset_in' = reset_in - 1
            /\ done' = done \cup {"move_ball", "handle_net_offset"}
            /\ UNCHANGED <<game_state, cmds, serving_region, score, net>>
       ELSE /\ reset_in' = -1
            /\ game_state' = "Game"
            /\ cmds' = Append(cmds, CmdSpawnBall(initial_region, 0,
                                                 get_player_id(initial_region)))
            /\ serving_region' = initial_region
            /\ score' = [left_player |-> PlayerScore(0, 0),
                         right_player |-> PlayerScore(0, 0), left_has_won |-> "None"]
            /\ net' = [net EXCEPT !.reset_queued = TRUE]
            /\ UNCHANGED done
    /\ UNCHANGED <<player_aim, stage, balls, bounce_evs, score_evs, game_over_evs, tween_evs, net_t,
                   swing, hit_evs, regions_target, initial_region>>

\* The end of a stage, as apply_buffers, with room for the balls of the resets.
apply_buffers_reset ==
    /\ stage \in {"Update", "PostUpdate", "Last"}
    /\ done = StageSystems
    /\ LET w == apply_cmds([balls |-> balls, net_t |-> net_t,
                             regions_target |-> regions_target], cmds)
       IN /\ Len(w.balls) <= MaxResetBalls
          /\ balls' = w.balls
          /\ net_t' = w.net_t
          /\ regions_target' = w.regions_target
    /\ cmds' = <<>>
    /\ stage' = CASE stage = "Update" -> "PostUpdate"
                  [] stage = "PostUpdate" -> "Last"
                  [] stage = "Last" -> "First"
    /\ done' = {}
    /\ UNCHANGED <<player_aim, bounce_evs, score_evs, game_over_evs, tween_evs, score, net,
                   serving_region, swing, hit_evs, game_state, reset_in, initial_region>>

NextReset ==
    \/ events_update
    \/ component_animator_system
    \/ on_tween_completed
    \/ move_ball
    \/ on_ball_bounced
    \/ handle_net_offset_sys
    \/ handle_swing_input_idle
    \/ handle_reset_input
    \/ reset
    \/ handle_collisions_out_of_range
    \/ handle_regions
    \/ handle_action_cooldown
    \/ on_game_over
    \/ apply_buffers_reset

\* Every frame runs every system of the state on top: the schedule never stops.
SpecReset == InitReset /\ [][NextReset]_vars /\ WF_vars(NextReset)

\* the balls in Serve once the Commands cs are applied
serves_after(cs) ==
    LET w == apply_cmds([balls |-> balls, net_t |-> net_t,
                         regions_target |-> regions_target], cs)
    IN {i \in DOMAIN w.balls : w.balls[i].alive /\ w.balls[i].status.tag = "Serve"}
status_after(cs, i) ==
    apply_cmds([balls |-> balls, net_t |-> net_t,
                regions_target |-> regions_target], cs).balls[i].status

\* C32: a reset requested in Game enters Reset with the timer started; Reset is
\* always left for Game; on entering Game again the score is 0-0 with no games
\* and no winner, the net's reset is queued, and the ball spawned is the one
\* ball in Serve, with no fault; and handle_net_offset, run with the reset
\* queued, sets net.target to 0, clears reset_queued and drops the
\* ScoreChangedEvt it has read.
C32_ResetRestoresMatch ==
    /\ [][/\ (game_state = "Game" /\ game_state' = "Reset") => reset_in' = ResetTicks
          /\ (game_state = "Reset" /\ game_state' = "Game") =>
                /\ score' = [left_player |-> PlayerScore(0, 0),
                             right_player |-> PlayerScore(0, 0), left_has_won |-> "None"]
                /\ net'.reset_queued
                /\ Len(spawns_in(cmds')) = Len(spawns_in(cmds)) + 1
                /\ Cardinality(serves_after(cmds')) = 1
                /\ \A i \in serves_after(cmds') : status_after(cmds', i).faults = 0
          /\ (step_of("handle_net_offset") /\ net.reset_queued) =>
                /\ net'.target = 0
                /\ ~net'.reset_queued
                /\ score_evs' = <<>>]_vars
    /\ (game_state = "Reset") ~> (game_state = "Game")

----------------------------------------------------------------------------
(* C33: the range of the points *)

\* C33: after any calls of add_point_to_score from 0-0 the points of either
\* side are in 0..4, the two sides are not both at 4, and a side is at 4 (AD)
\* only while the other side is at 3 (40).
C33_PointsRange ==
    LET l == score.left_player.points
        r == score.right_player.points
    IN /\ l \in 0..4
       /\ r \in 0..4
       /\ ~(l = 4 /\ r = 4)
       /\ (l = 4 => r = 3)
       /\ (r = 4 => l = 3)

\* C33 witness: the right side has the advantage after a game of the left side
C33_Witness ==
    /\ score.right_player.points = 4
    /\ score.left_player.points = 3
    /\ score.left_player.games = 1

----------------------------------------------------------------------------
(* C34: the statuses Serve and Fault *)

\* status is a Serve or Fault status the code can build by the claim
well_served(status) ==
    /\ status.tag = "Serve" =>
          /\ status.region \in PlayableRegions
          /\ status.faults \in {0, 1}
          /\ status.player = get_player_id(status.region)
          /\ status.player = (IF is_left(status.region) THEN 1 ELSE 2)
    /\ status.tag = "Fault" => status.faults \in {1, 2}

\* C34: every ball in the world, and every ball a queued spawn_ball is about to
\* put there, has in Serve(region, faults, player) a region that is not
\* OutOfBounds, faults 0 or 1 and the player of that region's side, and in
\* Fault(count, player) a count of 1 or 2.
C34_ServeStatus ==
    /\ \A i \in AliveIds : well_served(balls[i].status)
    /\ \A k \in queued_spawns : well_served(cmds[k].ball.status)

\* C34 witness: a ball served by the right player after a first fault has come
\* down as the second fault and is not resolved yet
C34_Witness ==
    \E i \in AliveIds :
       /\ balls[i].status = Fault(2, 2)
       /\ balls[i].bounced

----------------------------------------------------------------------------
(* C35: the hits that leave the status alone *)

\* the players of the BallHitEvt hs
hitters(hs) == {hs[k].player_id : k \in DOMAIN hs}

\* C35: when handle_collisions hits a ball, the ball's direction becomes the
\* aim of the player who hit it last and its bounce starts anew; the status
\* stays as it is when the ball is in Serve and hit by its server only, and when
\* the ball is in Fault or Used.
C35_HitKeepsStatus ==
    [][step_of("handle_collisions") =>
          \A i \in DOMAIN balls :
             (balls[i].alive /\ new_hits(i) # <<>>) =>
                /\ balls'[i].dir = aim_dir(new_hits(i)[Len(new_hits(i))].player_id)
                /\ balls'[i].dir # 0
                /\ balls'[i].height = 1
                /\ (balls[i].status.tag = "Serve"
                      /\ hitters(new_hits(i)) = {balls[i].status.player})
                      => balls'[i].status = balls[i].status
                /\ balls[i].status.tag \in {"Fault", "Used"}
                      => balls'[i].status = balls[i].status]_vars

\* C35 witness: the left player has hit their own second serve, which is flying
\* and still in Serve with the first fault counted
C35_Witness ==
    /\ stage = "PostUpdate"
    /\ "handle_collisions" \in done
    /\ Len(balls) = 2
    /\ hit_evs = <<BallHitEvt(2, 1)>>
    /\ balls[2].status = Serve("BottomLeft", 1, 1)
    /\ balls[2].dir = 1

----------------------------------------------------------------------------
(* C36: the decided ball *)

\* C36: handle_collisions sends no BallHitEvt for a ball whose status is Used,
\* so that no swing goes to Cooldown on it, and leaves the ball's direction and
\* the height of its bounce as they are.
C36_UsedBallOutOfPlay ==
    [][step_of("handle_collisions") =>
          \A i \in DOMAIN balls :
             (balls[i].alive /\ balls[i].status = Used) =>
                /\ new_hits(i) = <<>>
                /\ \A p \in Players :
                      (swing[p].status = "Active" /\ swing'[p].status = "Cooldown")
                         => \E k \in DOMAIN new_hits_by(p) : new_hits_by(p)[k].ball_e # i
                /\ balls'[i].dir = balls[i].dir
                /\ balls'[i].height = balls[i].height]_vars

----------------------------------------------------------------------------
(* C37: the cycle of a swing.  The game with either way of starting a swing:
   the release of the swing button (player.rs:666-699) of a player with a
   controller and the SwingAction of a player run by the AI
   (ai_player_controller.rs:309-338). *)

\* handle_swing_input's loop body for a player whose swing button was released
swing_released(sw) ==
    IF sw.status = "Ready" THEN PlayerSwing("Active", SwingTicks) ELSE sw

\* swing_action's body for an actor whose ActionState is Requested or Executing:
\* the status is set, the timer is not written and is the one the last
\* handle_action_timer has left, Timer::from_seconds(cooldown_sec, false)
swing_action(sw) ==
    IF sw.status = "Ready" THEN PlayerSwing("Active", CooldownTicks) ELSE sw

\* handle_swing_input and swing_action in one frame: every player is run by a
\* controller or by the AI.
swing_inputs ==
    /\ Ready("handle_swing_input")
    /\ \E ai \in SUBSET Players, swings \in SUBSET Players :
          swing' = [p \in Players |->
                       IF p \notin swings THEN swing[p]
                       ELSE IF p \in ai THEN swing_action(swing[p])
                       ELSE swing_released(swing[p])]
    /\ Ran("handle_swing_input")
    /\ UNCHANGED <<balls, cmds, bounce_evs, score_evs, game_over_evs, tween_evs, score,
                   net, net_t, serving_region, hit_evs, regions_target,
                   game_state, reset_in, initial_region, player_aim>>

NextCycle ==
    \/ events_update
    \/ swing_inputs
    \/ component_animator_system
    \/ on_tween_completed
    \/ move_ball
    \/ on_ball_bounced
    \/ handle_net_offset_sys
    \/ apply_buffers
    \/ handle_collisions
    \/ handle_regions
    \/ handle_action_cooldown
    \/ on_game_over

SpecCycle == Init /\ [][NextCycle]_vars

\* C37: the status of a swing changes from Ready to Active, from Active to
\* Cooldown and from Cooldown to Ready and in no other way.  It becomes Active
\* in the input systems only, and a release or an AI request that finds it
\* Active or in Cooldown leaves status and timer as they are; it leaves Active
\* when handle_collisions sends a BallHitEvt of the player or when the timer
\* finishes in handle_action_cooldown; it leaves Cooldown when the timer
\* finishes in handle_action_cooldown.
C37_SwingCycle ==
    [][\A p \in Players :
          LET a == swing[p]
              b == swing'[p]
          IN /\ a.status # b.status =>
                   <<a.status, b.status>> \in {<<"Ready", "Active">>, <<"Active", "Cooldown">>,
                                               <<"Cooldown", "Ready">>}
             /\ (a.status = "Ready" /\ b.status = "Active") => step_of("handle_swing_input")
             /\ (step_of("handle_swing_input") /\ a.status \in {"Active", "Cooldown"}) => b = a
             /\ a.status \in {"Active", "Cooldown"} =>
                   swing_released(a) = a /\ swing_action(a) = a
             /\ (a.status = "Active" /\ b.status = "Cooldown") =>
                   \/ step_of("handle_collisions") /\ new_hits_by(p) # <<>>
                   \/ step_of("handle_action_cooldown") /\ a.timer - 1 <= 0
             /\ (a.status = "Cooldown" /\ b.status = "Ready") =>
                   step_of("handle_action_cooldown") /\ a.timer - 1 <= 0]_vars

\* C37 witness: the right player's swing has hit the left player's serve and is
\* in Cooldown before handle_action_cooldown runs, the left player's swing is
\* Ready again
C37_Witness ==
    /\ stage = "PostUpdate"
    /\ done = {"handle_collisions", "handle_regions"}
    /\ hit_evs = <<BallHitEvt(1, 2)>>
    /\ swing[2].status = "Cooldown"
    /\ swing[1].status = "Ready"
    /\ balls[1].dir = aim_dir(2)
    /\ balls[1].status = Rally(2)

----------------------------------------------------------------------------
(* C38: the direction a hit gives the ball.  The frames of a game up to the one
   in which the served ball is hit, with the aim of the players. *)

\* a ball with Ball.dir as the Vec2 that handle_collisions writes
with_dir_v(b, v) == [f \in DOMAIN b \cup {"dir_v"} |-> IF f = "dir_v" THEN v ELSE b[f]]

InitAim ==
    /\ stage = "First"
    /\ done = {}
    /\ \E region \in InitialRegions :
          /\ balls = <<with_dir_v(spawn_ball(region, 0, get_player_id(region)), <<0, 0>>)>>
          /\ serving_region = region
    /\ cmds = <<>>
    /\ bounce_evs = <<>>
    /\ score_evs = <<>>
    /\ game_over_evs = <<>>
    /\ tween_evs = <<>>
    /\ score = [left_player |-> PlayerScore(0, 0), right_player |-> PlayerScore(0, 0),
                left_has_won |-> "None"]
    /\ net = [target |-> 0, current_offset |-> 0, reset_queued |-> TRUE]
    /\ net_t = [x |-> 0, anim |-> [on |-> FALSE, start |-> 0, end |-> 0, left |-> 0]]
    /\ swing = [p \in Players |-> PlayerSwing("Ready", 0)]
    /\ hit_evs = <<>>
    /\ regions_target = 0
    /\ game_entered(serving_region)
    /\ players_spawned

\* aim (player.rs:585-660), a system of Update, in a frame that finds the served
\* ball at rest: CoreStage::First and the systems of Update that run before
\* handle_swing_input leave everything else as it is.
aim_sys ==
    /\ stage = "First"
    /\ balls[1].dir = 0
    /\ stage' = "Update"
    /\ done' = Range(UpdatePrelude) \cup UpdateCore
    /\ hit_evs' = <<>>
    /\ \E raw \in [Players -> RawAims] :
          player_aim' = [p \in Players |-> aim(player_aim[p], p, raw[p])]
    /\ UNCHANGED <<balls, cmds, bounce_evs, score_evs, game_over_evs, tween_evs, score,
                   net, net_t, serving_region, swing, regions_target,
                   game_state, reset_in, initial_region>>

\* handle_collisions (ball.rs:208-310) with ball.dir = aim.dir.normalize()
\* (ball.rs:233-234)
handle_collisions_aim ==
    /\ Ready("handle_collisions")
    /\ \E inrange \in SUBSET {ip \in AliveIds \X {p \in Players : swing[p].status = "Active"} :
                                in_reach(ip[2], balls[ip[1]].x, net_t.x)} :
          LET w == hit_loop([balls |-> balls, swing |-> swing, hit_evs |-> hit_evs],
                            1, 1, inrange)
              hits(i) == SelectSeq(SubSeq(w.hit_evs, Len(hit_evs) + 1, Len(w.hit_evs)),
                                   LAMBDA e : e.ball_e = i)
          IN /\ balls' = [i \in DOMAIN w.balls |->
                            IF hits(i) = <<>> THEN w.balls[i]
                            ELSE with_dir_v(w.balls[i],
                                     normalize(player_aim[hits(i)[Len(hits(i))].player_id]
                                                   .direction))]
             /\ swing' = w.swing
             /\ hit_evs' = w.hit_evs
    /\ Ran("handle_collisions")
    /\ UNCHANGED <<cmds, bounce_evs, score_evs, game_over_evs, tween_evs, score, net,
                   net_t, serving_region, regions_target,
                   game_state, reset_in, initial_region, player_aim>>

NextAim ==
    \/ aim_sys
    \/ handle_swing_input_sys
    \/ handle_collisions_aim
    \/ handle_regions
    \/ handle_action_cooldown
    \/ on_game_over
    \/ apply_buffers

SpecAim == InitAim /\ [][NextAim]_vars

\* C38: the direction a hit of player p gives the ball is not zero and its x
\* component points to the other player's side: positive for the left player,
\* negative for the right player; so does the aim of every player at all
\* times.  Raw axes that point straight back into the player's own court turn
\* the aim as raw axes that point straight across do.
C38_AimAcross ==
    /\ [](\A p \in Players :
             /\ player_aim[p].direction[1] * player_side(p) < 0
             /\ aim(player_aim[p], p, <<player_side(p) * 1000, 0>>)
                   = aim(player_aim[p], p, <<-player_side(p) * 1000, 0>>))
    /\ [][step_of("handle_collisions") =>
             \A i \in DOMAIN balls :
                new_hits(i) # <<>> =>
                   LET p == new_hits(i)[Len(new_hits(i))].player_id
                       v == balls'[i].dir_v
                   IN /\ v # <<0, 0>>
                      /\ v[1] * player_side(p) < 0
                      /\ sgn(v[1]) = balls'[i].dir]_vars

\* C38 witness: the left player has hit the serve while the aim was turning
\* upwards, short of the clamped direction
C38_Witness ==
    /\ hit_evs = <<BallHitEvt(1, 1)>>
    /\ balls[1].dir_v[1] > 0
    /\ balls[1].dir_v[2] > 0
    /\ player_aim[1].rotation \in -89 .. -60

====
